---- MODULE Spec2Model ----
(***************************************************************************)
(* A model of tui_tetris: the configuration parser / serializer of         *)
(* game_config.rs and the bag-sequence decoder of gameboard.rs.            *)
(*                                                                         *)
(* Text is modelled as a sequence of characters.  An ASCII character is a  *)
(* one-character string; a non-ASCII character is written "U+XXXX" (its    *)
(* code point), and Utf8Len gives the number of bytes it takes in a &str.  *)
(* u64 / usize values are four 16-bit limbs, least significant first, so   *)
(* that the 64-bit width of the arithmetic is kept.                        *)
(***************************************************************************)
EXTENDS Integers, Sequences, FiniteSets, TLC

VARIABLES
    text,             \* contents of ./tui_tetris.conf given to GameConfig::parse
    overflow_checks,  \* build profile: TRUE when arithmetic overflow panics
    pc,               \* position of the run in main / GameConfig::parse
    unread,           \* what s.lines() has not yet read
    num,              \* index of the next line of s.lines().enumerate()
    settings,         \* the Settings table built by the tokenizer loop
    fields,           \* the decoded locals of parse (fps .. o_color)
    result,           \* what parse returned: None, Ok(record), Err(error), or a panic
    written,          \* the record whose Display output was written to the file
    sequence_number,  \* the argument of decode_sequence_number, reduced stage by stage
    in_use,           \* decode_sequence_number's usage map
    picks,            \* p0 .. p6 chosen so far
    dpc,              \* position inside decode_sequence_number
    fell_through,     \* an unreachable_unchecked() arm was entered
    sequence,         \* the array decode_sequence_number returned
    index             \* the sequence index the decoder was called with

cvars == <<text, overflow_checks, pc, unread, num, settings, fields, result, written>>
dvars == <<sequence_number, in_use, picks, dpc, fell_through, sequence, index>>
vars == <<text, overflow_checks, pc, unread, num, settings, fields, result, written,
          sequence_number, in_use, picks, dpc, fell_through, sequence, index>>

---------------------------------------------------------------------------
(* Characters and &str helpers of the standard library, as parse uses them *)

DigitChars == <<"0", "1", "2", "3", "4", "5", "6", "7", "8", "9">>
UpperChars == <<"A", "B", "C", "D", "E", "F", "G", "H", "I", "J", "K", "L", "M", "N", "O", "P", "Q", "R", "S", "T", "U", "V", "W", "X", "Y", "Z">>
LowerChars == <<"a", "b", "c", "d", "e", "f", "g", "h", "i", "j", "k", "l", "m", "n", "o", "p", "q", "r", "s", "t", "u", "v", "w", "x", "y", "z">>
TwoByteChars == {"U+00E9"}
ThreeByteChars == {"U+25A1", "U+25A0", "U+2550", "U+2551", "U+2554", "U+255A",
                   "U+255D", "U+2557"}

Range(s) == {s[i] : i \in 1..Len(s)}

IsDigit(c) == c \in Range(DigitChars)
DigitVal(c) == (CHOOSE i \in 1..10 : DigitChars[i] = c) - 1

\* char::is_whitespace for the characters of the model's alphabet
IsWhitespace(c) == c \in {" ", "\t", "\n", "\r"}

\* the length in bytes of the UTF-8 encoding of a character
Utf8Len(c) == IF c \in ThreeByteChars THEN 3 ELSE IF c \in TwoByteChars THEN 2 ELSE 1

RECURSIVE ByteLen(_)
\* str::len: the length of a &str in bytes
ByteLen(s) == IF s = <<>> THEN 0 ELSE Utf8Len(Head(s)) + ByteLen(Tail(s))

\* char::to_ascii_lowercase
CharToAsciiLowercase(c) ==
    IF c \in Range(UpperChars)
    THEN LowerChars[CHOOSE i \in 1..26 : UpperChars[i] = c]
    ELSE c

\* str::to_ascii_lowercase
ToAsciiLowercase(s) == [i \in 1..Len(s) |-> CharToAsciiLowercase(s[i])]

RECURSIVE FirstNonWs(_, _)
FirstNonWs(s, i) ==
    IF i > Len(s) \/ ~IsWhitespace(s[i]) THEN i ELSE FirstNonWs(s, i + 1)

RECURSIVE LastNonWs(_, _)
LastNonWs(s, i) ==
    IF i < 1 \/ ~IsWhitespace(s[i]) THEN i ELSE LastNonWs(s, i - 1)

\* str::trim
Trim(s) ==
    LET a == FirstNonWs(s, 1)
        b == LastNonWs(s, Len(s))
    IN  IF a > b THEN <<>> ELSE SubSeq(s, a, b)

RECURSIVE SplitFrom(_, _, _, _)
SplitFrom(s, d, i, cur) ==
    IF i > Len(s) THEN <<cur>>
    ELSE IF s[i] = d THEN <<cur>> \o SplitFrom(s, d, i + 1, <<>>)
    ELSE SplitFrom(s, d, i + 1, Append(cur, s[i]))

\* str::split(char): the pieces between the delimiters, always at least one
Split(s, d) == SplitFrom(s, d, 1, <<>>)

RECURSIVE SplitWsFrom(_, _, _)
SplitWsFrom(s, i, cur) ==
    IF i > Len(s) THEN (IF cur = <<>> THEN <<>> ELSE <<cur>>)
    ELSE IF IsWhitespace(s[i])
         THEN (IF cur = <<>> THEN <<>> ELSE <<cur>>) \o SplitWsFrom(s, i + 1, <<>>)
         ELSE SplitWsFrom(s, i + 1, Append(cur, s[i]))

\* str::split_whitespace: the non-empty pieces between runs of whitespace
SplitWhitespace(s) == SplitWsFrom(s, 1, <<>>)

StripCr(l) == IF l # <<>> /\ l[Len(l)] = "\r" THEN SubSeq(l, 1, Len(l) - 1) ELSE l

RECURSIVE FindNewline(_, _)
\* the index of the first "\n" of s at or after i, Len(s) + 1 when there is none
FindNewline(s, i) ==
    IF i > Len(s) \/ s[i] = "\n" THEN i ELSE FindNewline(s, i + 1)

\* Lines::next on a non-empty rest of the text: the line up to the next "\n",
\* a trailing "\r" removed, and what is left to read after it
NextLine(s) ==
    [line |-> StripCr(SubSeq(s, 1, FindNewline(s, 1) - 1)),
     rest |-> SubSeq(s, FindNewline(s, 1) + 1, Len(s))]

RECURSIVE Lines(_)
\* str::lines: every line of the text, in order
Lines(s) == IF s = <<>> THEN <<>> ELSE <<NextLine(s).line>> \o Lines(NextLine(s).rest)

---------------------------------------------------------------------------
(* Option and Result *)

None == <<"None">>
Some(v) == <<"Some", v>>
IsSome(o) == o[1] = "Some"
Unwrap(o) == o[2]

Ok(v) == [ok |-> TRUE, val |-> v]
Err(e) == [ok |-> FALSE, err |-> e]

\* let x = v in F(x), with v evaluated once
Let(v, F(_)) == CHOOSE r \in {F(x) : x \in {v}} : TRUE

---------------------------------------------------------------------------
(* Unsigned integers *)

LimbBase == 256 * 256
U64Zero == <<0, 0, 0, 0>>
\* the u64 / usize holding a small number n < 65536
U64(n) == <<n, 0, 0, 0>>

\* x * m + a for small m and a: the low 64 bits and what was carried out of them
U64MulAdd(x, m, a) ==
    LET t1 == x[1] * m + a
        t2 == x[2] * m + (t1 \div LimbBase)
        t3 == x[3] * m + (t2 \div LimbBase)
        t4 == x[4] * m + (t3 \div LimbBase)
    IN  [val |-> <<t1 % LimbBase, t2 % LimbBase, t3 % LimbBase, t4 % LimbBase>>,
         carry |-> t4 \div LimbBase]

U64Lt(a, b) ==
    \E i \in 1..4 : a[i] < b[i] /\ \A j \in (i + 1)..4 : a[j] = b[j]
U64Le(a, b) == a = b \/ U64Lt(a, b)

U64DivMod10(x) ==
    LET c4 == x[4]
        c3 == (c4 % 10) * LimbBase + x[3]
        c2 == (c3 % 10) * LimbBase + x[2]
        c1 == (c2 % 10) * LimbBase + x[1]
    IN  [quot |-> <<c1 \div 10, c2 \div 10, c3 \div 10, c4 \div 10>>, rem |-> c1 % 10]

RECURSIVE U64ToString(_)
\* Display for u64 / usize: the decimal digits, no leading zero
U64ToString(x) ==
    Let(U64DivMod10(x), LAMBDA d :
        IF d.quot = U64Zero
        THEN <<DigitChars[d.rem + 1]>>
        ELSE Append(U64ToString(d.quot), DigitChars[d.rem + 1]))

RECURSIVE U8ToString(_)
\* Display for u8
U8ToString(n) ==
    IF n < 10
    THEN <<DigitChars[n + 1]>>
    ELSE Append(U8ToString(n \div 10), DigitChars[(n % 10) + 1])

RECURSIVE U64FromDigits(_, _, _)
U64FromDigits(s, i, acc) ==
    IF i > Len(s) THEN Ok(acc)
    ELSE IF ~IsDigit(s[i]) THEN Err("InvalidDigit")
    ELSE Let(U64MulAdd(acc, 10, DigitVal(s[i])), LAMBDA r :
             IF r.carry # 0 THEN Err("PosOverflow") ELSE U64FromDigits(s, i + 1, r.val))

RECURSIVE U8FromDigits(_, _, _)
U8FromDigits(s, i, acc) ==
    IF i > Len(s) THEN Ok(acc)
    ELSE IF ~IsDigit(s[i]) THEN Err("InvalidDigit")
    ELSE LET r == acc * 10 + DigitVal(s[i])
         IN  IF r > 255 THEN Err("PosOverflow") ELSE U8FromDigits(s, i + 1, r)

\* the digits of an unsigned FromStr input: one leading "+" is dropped
Unsigned(s) == IF s # <<>> /\ s[1] = "+" THEN Tail(s) ELSE s

\* str::parse::<u64>() and str::parse::<usize>()
ParseU64(s) ==
    IF s = <<>> THEN Err("Empty")
    ELSE IF Unsigned(s) = <<>> THEN Err("InvalidDigit")
    ELSE U64FromDigits(Unsigned(s), 1, U64Zero)

\* str::parse::<u8>()
ParseU8(s) ==
    IF s = <<>> THEN Err("Empty")
    ELSE IF Unsigned(s) = <<>> THEN Err("InvalidDigit")
    ELSE U8FromDigits(Unsigned(s), 1, 0)

---------------------------------------------------------------------------
(* ParseError and the value parsers *)

\* ParseError::new
ParseError(kind, line_num, line, correction) ==
    [kind |-> kind, line_num |-> line_num, line |-> line, correction |-> correction]

parse_mode(rhs, line_num, line) ==
    LET low == ToAsciiLowercase(rhs)
    IN  IF low \in {<<"c">>, <<"c", "l", "a", "s", "s", "i", "c">>} THEN Ok("Classic")
        ELSE IF low \in {<<"m">>, <<"m", "o", "d", "e", "r", "n">>} THEN Ok("Modern")
        ELSE Err(ParseError("InvalidValue", line_num, line,
                 Some("Accepted game mode indicators: c, classic, m, modern.")))

\* the named arm of parse_keyevent's inner match, <<>> when no arm matches
KeyEventByName(rhs) ==
    CASE rhs = <<"s", "p", "a", "c", "e">> -> <<"Char", " ">>
      [] rhs = <<"l", "e", "f", "t">> -> <<"Left">>
      [] rhs = <<"r", "i", "g", "h", "t">> -> <<"Right">>
      [] rhs = <<"u", "p">> -> <<"Up">>
      [] rhs = <<"d", "o", "w", "n">> -> <<"Down">>
      [] rhs = <<"l", "s", "h", "i", "f", "t">> -> <<"ShiftLeft">>
      [] rhs = <<"r", "s", "h", "i", "f", "t">> -> <<"ShiftRight">>
      [] rhs = <<"l", "c", "t", "r", "l">> -> <<"CtrlLeft">>
      [] rhs = <<"r", "c", "t", "r", "l">> -> <<"CtrlRight">>
      [] rhs = <<"e", "s", "c">> -> <<"Esc">>
      [] OTHER -> <<>>

parse_keyevent(rhs, line_num, line) ==
    IF ByteLen(rhs) = 1 THEN Ok(<<"Char", rhs[1]>>)
    ELSE IF KeyEventByName(rhs) # <<>> THEN Ok(KeyEventByName(rhs))
    ELSE Err(ParseError("InvalidValue", line_num, line,
             Some("Supported non-single-character values: 'space', 'left', 'right', 'up', 'down', 'lshift', 'rshift', 'lctrl', 'rctrl', and 'esc'.")))

\* one component of parse_rgb_triple: parts.next().ok_or_else(..)?.parse::<u8>().map_err(..)?
RgbPart(parts, i, line_num, line, missing, failed) ==
    IF i > Len(parts)
    THEN Err(ParseError("MissingValue", line_num, line, Some(missing)))
    ELSE IF ~ParseU8(parts[i]).ok
    THEN Err(ParseError("FailedParseValue", line_num, line, Some(failed)))
    ELSE Ok(ParseU8(parts[i]).val)

parse_rgb_triple(s, line_num, line) ==
    LET parts == Split(s, ",")
        r == RgbPart(parts, 1, line_num, line, "Missing R value.", "Failed to parse R value.")
        g == RgbPart(parts, 2, line_num, line, "Missing G value.", "Failed to parse G value.")
        b == RgbPart(parts, 3, line_num, line, "Missing B value.", "Failed to parse B value.")
    IN  IF ~r.ok THEN r
        ELSE IF ~g.ok THEN g
        ELSE IF ~b.ok THEN b
        ELSE Ok(<<r.val, g.val, b.val>>)

parse_color(rhs, line_num, line) ==
    LET parts == SplitWhitespace(rhs)
    IN  IF Len(parts) < 1
        THEN Err(ParseError("MissingValue", line_num, line, Some("Missing color type.")))
        ELSE IF Len(parts) < 2
        THEN Err(ParseError("MissingValue", line_num, line, Some("Missing color.")))
        ELSE LET color_type == ToAsciiLowercase(parts[1])
                 color == parts[2]
             IN  IF color_type = <<"r", "g", "b">>
                 THEN LET t == parse_rgb_triple(color, line_num, line)
                      IN  IF t.ok THEN Ok(<<"Rgb", t.val[1], t.val[2], t.val[3]>>) ELSE t
                 ELSE IF color_type = <<"a", "n", "s", "i">>
                 THEN IF ParseU8(color).ok
                      THEN Ok(<<"AnsiValue", ParseU8(color).val>>)
                      ELSE Err(ParseError("FailedParseValue", line_num, line,
                               Some("Failed to parse ANSI color value.")))
                 ELSE Err(ParseError("InvalidValue", line_num, line,
                          Some("Accepted color formats are: rgb, ansi.")))

parse_char(rhs, line_num, line) ==
    IF Len(rhs) = 0
    THEN Err(ParseError("MissingValue", line_num, line, Some("Missing character value.")))
    ELSE IF Len(rhs) > 1
    THEN Err(ParseError("InvalidValue", line_num, line,
             Some("Expected a single character value.")))
    ELSE Ok(rhs[1])

parse_bool(rhs, line_num, line) ==
    LET low == ToAsciiLowercase(rhs)
    IN  IF low \in {<<"1">>, <<"t">>, <<"t", "r", "u", "e">>} THEN Ok(TRUE)
        ELSE IF low \in {<<"0">>, <<"f">>, <<"f", "a", "l", "s", "e">>} THEN Ok(FALSE)
        ELSE Err(ParseError("InvalidValue", line_num, line,
                 Some("Accepted boolean values: 1, t, true, 0, f, false")))

---------------------------------------------------------------------------
(* The lookup helpers.  map is the Settings table: a function from the     *)
(* setting names present to <<rhs, line_num, line>>.                       *)

\* the call parser(rhs, line_num, line), the parser passed by name
CallParser(parser, rhs, line_num, line) ==
    CASE parser = "parse_mode" -> parse_mode(rhs, line_num, line)
      [] parser = "parse_keyevent" -> parse_keyevent(rhs, line_num, line)
      [] parser = "parse_color" -> parse_color(rhs, line_num, line)
      [] parser = "parse_char" -> parse_char(rhs, line_num, line)
      [] parser = "parse_bool" -> parse_bool(rhs, line_num, line)

general_parse(map, key, default, parser) ==
    IF key \in DOMAIN map
    THEN CallParser(parser, map[key][1], map[key][2], map[key][3])
    ELSE Ok(default)

\* opt_general_parse without the test for "none"
opt_general_parse_no_sentinel(map, key, default, parser) ==
    IF key \in DOMAIN map
    THEN LET p == CallParser(parser, map[key][1], map[key][2], map[key][3])
         IN  IF p.ok THEN Ok(Some(p.val)) ELSE p
    ELSE Ok(default)

opt_general_parse(map, key, default, parser) ==
    IF key \in DOMAIN map
    THEN IF ToAsciiLowercase(map[key][1]) = <<"n", "o", "n", "e">>
         THEN Ok(None)
         ELSE LET p == CallParser(parser, map[key][1], map[key][2], map[key][3])
              IN  IF p.ok THEN Ok(Some(p.val)) ELSE p
    ELSE Ok(default)

\* range is the start of a RangeFrom (1..)
parse_num_range(map, key, default, range, fp_message, oor_message) ==
    IF key \in DOMAIN map
    THEN LET parsed == ParseU64(map[key][1])
         IN  IF ~parsed.ok
             THEN Err(ParseError("FailedParseValue", map[key][2], map[key][3],
                      Some(fp_message)))
             ELSE IF U64Le(range, parsed.val)
             THEN Ok(parsed.val)
             ELSE Err(ParseError("InvalidValue", map[key][2], map[key][3],
                      Some(oor_message)))
    ELSE Ok(default)

opt_parse_num_range(map, key, default, range, fp_message, oor_message) ==
    IF key \in DOMAIN map
    THEN IF ToAsciiLowercase(map[key][1]) = <<"n", "o", "n", "e">>
         THEN Ok(None)
         ELSE LET parsed == ParseU64(map[key][1])
              IN  IF ~parsed.ok
                  THEN Err(ParseError("FailedParseValue", map[key][2], map[key][3],
                           Some(fp_message)))
                  ELSE IF U64Le(range, parsed.val)
                  THEN Ok(Some(parsed.val))
                  ELSE Err(ParseError("InvalidValue", map[key][2], map[key][3],
                           Some(oor_message)))
    ELSE Ok(default)

---------------------------------------------------------------------------
(* The recognized settings and the compiled-in defaults *)

CONFIG_OPTIONS == <<
    <<"f", "p", "s">>, <<"b", "o", "a", "r", "d", "_", "w", "i", "d", "t", "h">>, <<"b", "o", "a", "r", "d", "_", "h", "e", "i", "g", "h", "t">>, <<"m", "o", "n", "o", "c", "h", "r", "o", "m", "e">>, <<"c", "a", "s", "c", "a", "d", "e">>,
    <<"c", "o", "n", "s", "t", "_", "l", "e", "v", "e", "l">>, <<"g", "h", "o", "s", "t", "_", "t", "e", "t", "r", "o", "m", "i", "n", "o", "_", "c", "h", "a", "r", "a", "c", "t", "e", "r">>, <<"g", "h", "o", "s", "t", "_", "t", "e", "t", "r", "o", "m", "i", "n", "o", "_", "c", "o", "l", "o", "r">>,
    <<"t", "o", "p", "_", "b", "o", "r", "d", "e", "r", "_", "c", "h", "a", "r", "a", "c", "t", "e", "r">>, <<"l", "e", "f", "t", "_", "b", "o", "r", "d", "e", "r", "_", "c", "h", "a", "r", "a", "c", "t", "e", "r">>,
    <<"b", "o", "t", "t", "o", "m", "_", "b", "o", "r", "d", "e", "r", "_", "c", "h", "a", "r", "a", "c", "t", "e", "r">>, <<"r", "i", "g", "h", "t", "_", "b", "o", "r", "d", "e", "r", "_", "c", "h", "a", "r", "a", "c", "t", "e", "r">>,
    <<"t", "l", "_", "c", "o", "r", "n", "e", "r", "_", "c", "h", "a", "r", "a", "c", "t", "e", "r">>, <<"b", "l", "_", "c", "o", "r", "n", "e", "r", "_", "c", "h", "a", "r", "a", "c", "t", "e", "r">>, <<"b", "r", "_", "c", "o", "r", "n", "e", "r", "_", "c", "h", "a", "r", "a", "c", "t", "e", "r">>,
    <<"t", "r", "_", "c", "o", "r", "n", "e", "r", "_", "c", "h", "a", "r", "a", "c", "t", "e", "r">>, <<"b", "o", "r", "d", "e", "r", "_", "c", "o", "l", "o", "r">>, <<"b", "l", "o", "c", "k", "_", "c", "h", "a", "r", "a", "c", "t", "e", "r">>,
    <<"b", "l", "o", "c", "k", "_", "s", "i", "z", "e">>, <<"m", "o", "d", "e">>, <<"m", "o", "v", "e", "_", "l", "e", "f", "t">>, <<"m", "o", "v", "e", "_", "r", "i", "g", "h", "t">>,
    <<"r", "o", "t", "a", "t", "e", "_", "c", "l", "o", "c", "k", "w", "i", "s", "e">>, <<"r", "o", "t", "a", "t", "e", "_", "a", "n", "t", "i", "c", "l", "o", "c", "k", "w", "i", "s", "e">>, <<"s", "o", "f", "t", "_", "d", "r", "o", "p">>,
    <<"h", "a", "r", "d", "_", "d", "r", "o", "p">>, <<"h", "o", "l", "d">>, <<"b", "a", "c", "k", "g", "r", "o", "u", "n", "d", "_", "c", "o", "l", "o", "r">>, <<"i", "_", "c", "o", "l", "o", "r">>, <<"j", "_", "c", "o", "l", "o", "r">>,
    <<"l", "_", "c", "o", "l", "o", "r">>, <<"s", "_", "c", "o", "l", "o", "r">>, <<"z", "_", "c", "o", "l", "o", "r">>, <<"t", "_", "c", "o", "l", "o", "r">>, <<"o", "_", "c", "o", "l", "o", "r">> >>

VALID_SETTINGS == "Valid settings: fps, board_width, board_height, monochrome, cascade, const_level, ghost_tetromino_character, ghost_tetromino_color, top_border_character, left_border_character, bottom_border_character, right_border_character, tl_corner_character, bl_corner_character, br_corner_character, tr_corner_character, border_color, block_character, block_size, mode, move_left, move_right, rotate_clockwise, rotate_anticlockwise, soft_drop, hard_drop, hold, background_color, i_color, j_color, l_color, s_color, z_color, t_color, o_color"

D_FPS == U64(60)
D_BOARD_WIDTH == U64(10)
D_BOARD_HEIGHT == U64(20)
D_MODE == "Modern"
D_LEFT == <<"Left">>
D_RIGHT == <<"Right">>
D_ROT_CW == <<"ShiftLeft">>
D_ROT_ACW == <<"Up">>
D_SOFT_DROP == <<"Down">>
D_HARD_DROP == Some(<<"Char", " ">>)
D_HOLD == Some(<<"Char", "c">>)
D_GHOST_TETROMINO_CHARACTER == Some("U+25A1")
D_GHOST_TETROMINO_COLOR == Some(<<"Rgb", 240, 240, 240>>)
D_CASCADE == FALSE
D_CONST_LEVEL == None
D_MONOCHROME == None
D_BORDER_COLOR == <<"Rgb", 255, 255, 255>>
D_TOP_BORDER_CHARACTER == "U+2550"
D_TL_CORNER_CHARACTER == "U+2554"
D_LEFT_BORDER_CHARACTER == "U+2551"
D_BL_CORNER_CHARACTER == "U+255A"
D_BOTTOM_BORDER_CHARACTER == "U+2550"
D_BR_CORNER_CHARACTER == "U+255D"
D_RIGHT_BORDER_CHARACTER == "U+2551"
D_TR_CORNER_CHARACTER == "U+2557"
D_BACKGROUND_COLOR == <<"Rgb", 0, 0, 0>>
D_BLOCK_CHARACTER == "U+25A0"
\* a default block size that the default board is too small for
D_BLOCK_SIZE_3 == U64(3)
D_BLOCK_SIZE == U64(1)
D_I_COLOR == <<"Rgb", 0, 240, 240>>
D_J_COLOR == <<"Rgb", 0, 0, 240>>
D_L_COLOR == <<"Rgb", 240, 160, 0>>
D_S_COLOR == <<"Rgb", 0, 240, 0>>
D_Z_COLOR == <<"Rgb", 240, 0, 0>>
D_T_COLOR == <<"Rgb", 160, 0, 240>>
D_O_COLOR == <<"Rgb", 240, 240, 0>>

\* GameConfig::default
GameConfigDefault ==
    [fps |-> D_FPS, board_width |-> D_BOARD_WIDTH, board_height |-> D_BOARD_HEIGHT,
     mode |-> D_MODE, left |-> D_LEFT, right |-> D_RIGHT, rot_cw |-> D_ROT_CW,
     rot_acw |-> D_ROT_ACW, soft_drop |-> D_SOFT_DROP, hard_drop |-> D_HARD_DROP,
     hold |-> D_HOLD, ghost_tetromino_character |-> D_GHOST_TETROMINO_CHARACTER,
     ghost_tetromino_color |-> D_GHOST_TETROMINO_COLOR, cascade |-> D_CASCADE,
     const_level |-> D_CONST_LEVEL, monochrome |-> D_MONOCHROME,
     border_color |-> D_BORDER_COLOR, top_border_character |-> D_TOP_BORDER_CHARACTER,
     tl_corner_character |-> D_TL_CORNER_CHARACTER,
     left_border_character |-> D_LEFT_BORDER_CHARACTER,
     bl_corner_character |-> D_BL_CORNER_CHARACTER,
     bottom_border_character |-> D_BOTTOM_BORDER_CHARACTER,
     br_corner_character |-> D_BR_CORNER_CHARACTER,
     right_border_character |-> D_RIGHT_BORDER_CHARACTER,
     tr_corner_character |-> D_TR_CORNER_CHARACTER,
     background_color |-> D_BACKGROUND_COLOR, block_character |-> D_BLOCK_CHARACTER,
     block_size |-> D_BLOCK_SIZE, i_color |-> D_I_COLOR, j_color |-> D_J_COLOR,
     l_color |-> D_L_COLOR, s_color |-> D_S_COLOR, z_color |-> D_Z_COLOR,
     t_color |-> D_T_COLOR, o_color |-> D_O_COLOR]

---------------------------------------------------------------------------
(* GameConfig::parse *)

\* HashMap::with_capacity(35): the empty Settings table
EmptySettings == [k \in {} |-> <<>>]

\* a panic or unreachable!() instead of a return
Panic(msg) == [ok |-> FALSE, panic |-> msg]
IsErr(r) == ~r.ok /\ "err" \in DOMAIN r
IsPanic(r) == ~r.ok /\ "panic" \in DOMAIN r

\* the loop body with one check changed: variant "overwrite" inserts a repeated
\* key without the DuplicateSetting error, "any_key" inserts a key that is not
\* in CONFIG_OPTIONS, "no_rhs" skips a line that has no second section
TokenizeLineVariant(map, n, line, variant) ==
    IF ByteLen(line) = 0 THEN Ok(map)
    ELSE IF line[1] = "#" THEN Ok(map)
    ELSE LET sections == Split(line, "=")
             lhs == Trim(sections[1])
         IN  IF ByteLen(lhs) = 0
             THEN Err(ParseError("InvalidLineFormat", n, line,
                      Some("There must be a setting name on the left side of the equals sign.")))
             ELSE IF Len(sections) < 2
             THEN IF variant = "no_rhs" THEN Ok(map)
                  ELSE Err(ParseError("InvalidLineFormat", n, line, None))
             ELSE LET rhs == Trim(sections[2])
                  IN  IF ByteLen(rhs) = 0
                      THEN Err(ParseError("InvalidLineFormat", n, line,
                               Some("There must be a value on the right side of the equals sign.")))
                      ELSE IF lhs \in Range(CONFIG_OPTIONS) \/ variant = "any_key"
                      THEN IF lhs \in DOMAIN map /\ variant # "overwrite"
                           THEN Err(ParseError("DuplicateSetting", n, line, None))
                           ELSE Ok([k \in DOMAIN map \cup {lhs} |->
                                       IF k = lhs THEN <<rhs, n, line>> ELSE map[k]])
                      ELSE Err(ParseError("UnknownSetting", n, line, Some(VALID_SETTINGS)))

TokenizeLineOverwrite(map, n, line) == TokenizeLineVariant(map, n, line, "overwrite")
TokenizeLineAnyKey(map, n, line) == TokenizeLineVariant(map, n, line, "any_key")
TokenizeLineNoRhs(map, n, line) == TokenizeLineVariant(map, n, line, "no_rhs")

\* one iteration of the loop over s.lines().enumerate(): the table with the
\* line's entry added (unchanged for a skipped line), or the error returned
TokenizeLine(map, n, line) ==
    IF ByteLen(line) = 0 THEN Ok(map)
    ELSE IF line[1] = "#" THEN Ok(map)
    ELSE LET sections == Split(line, "=")
             lhs == Trim(sections[1])
         IN  IF ByteLen(lhs) = 0
             THEN Err(ParseError("InvalidLineFormat", n, line,
                      Some("There must be a setting name on the left side of the equals sign.")))
             ELSE IF Len(sections) < 2
             THEN Err(ParseError("InvalidLineFormat", n, line, None))
             ELSE LET rhs == Trim(sections[2])
                  IN  IF ByteLen(rhs) = 0
                      THEN Err(ParseError("InvalidLineFormat", n, line,
                               Some("There must be a value on the right side of the equals sign.")))
                      ELSE IF lhs \in Range(CONFIG_OPTIONS)
                      THEN IF lhs \in DOMAIN map
                           THEN Err(ParseError("DuplicateSetting", n, line, None))
                           ELSE Ok([k \in DOMAIN map \cup {lhs} |->
                                       IF k = lhs THEN <<rhs, n, line>> ELSE map[k]])
                      ELSE Err(ParseError("UnknownSetting", n, line, Some(VALID_SETTINGS)))

\* the last error of a sequence of Results
LastErr(all) ==
    all[CHOOSE i \in 1..Len(all) : ~all[i].ok /\ \A j \in (i + 1)..Len(all) : all[j].ok]

\* the first error of a sequence of Results, in order
FirstErr(all) ==
    all[CHOOSE i \in 1..Len(all) : ~all[i].ok /\ \A j \in 1..(i - 1) : all[j].ok]

\* the lookups of "Get a value for each setting", in the order of the code
Lookups(map) == <<
    parse_num_range(map, <<"f", "p", "s">>, D_FPS, U64(1), "Failed to parse FPS value.", "FPS value is not greater than or equal to 1."),
    parse_num_range(map, <<"b", "o", "a", "r", "d", "_", "w", "i", "d", "t", "h">>, D_BOARD_WIDTH, U64(1), "Failed to parse board width value.", "Board width value is not greater than or equal to 1."),
    parse_num_range(map, <<"b", "o", "a", "r", "d", "_", "h", "e", "i", "g", "h", "t">>, D_BOARD_HEIGHT, U64(1), "Failed to parse board height value.", "Board height value is not greater than or equal to 1."),
    general_parse(map, <<"m", "o", "d", "e">>, D_MODE, "parse_mode"),
    general_parse(map, <<"l", "e", "f", "t">>, D_LEFT, "parse_keyevent"),
    general_parse(map, <<"r", "i", "g", "h", "t">>, D_RIGHT, "parse_keyevent"),
    general_parse(map, <<"r", "o", "t", "_", "c", "w">>, D_ROT_CW, "parse_keyevent"),
    general_parse(map, <<"r", "o", "t", "_", "a", "c", "w">>, D_ROT_ACW, "parse_keyevent"),
    general_parse(map, <<"s", "o", "f", "t", "_", "d", "r", "o", "p">>, D_SOFT_DROP, "parse_keyevent"),
    opt_general_parse(map, <<"h", "a", "r", "d", "_", "d", "r", "o", "p">>, D_HARD_DROP, "parse_keyevent"),
    opt_general_parse(map, <<"h", "o", "l", "d">>, D_HOLD, "parse_keyevent"),
    opt_general_parse(map, <<"g", "h", "o", "s", "t", "_", "t", "e", "t", "r", "o", "m", "i", "n", "o", "_", "c", "h", "a", "r", "a", "c", "t", "e", "r">>, D_GHOST_TETROMINO_CHARACTER,
        "parse_char"),
    opt_general_parse(map, <<"g", "h", "o", "s", "t", "_", "t", "e", "t", "r", "o", "m", "i", "n", "o", "_", "c", "o", "l", "o", "r">>, D_GHOST_TETROMINO_COLOR,
        "parse_color"),
    general_parse(map, <<"c", "a", "s", "c", "a", "d", "e">>, D_CASCADE, "parse_bool"),
    opt_parse_num_range(map, <<"c", "o", "n", "s", "t", "_", "l", "e", "v", "e", "l">>, D_CONST_LEVEL, U64(1), "Failed to parse constant level value.", "Level value was not greater than or equal to 1."),
    opt_general_parse(map, <<"m", "o", "n", "o", "c", "h", "r", "o", "m", "e">>, D_MONOCHROME, "parse_color"),
    general_parse(map, <<"b", "o", "r", "d", "e", "r", "_", "c", "o", "l", "o", "r">>, D_BORDER_COLOR, "parse_color"),
    general_parse(map, <<"t", "o", "p", "_", "b", "o", "r", "d", "e", "r", "_", "c", "h", "a", "r", "a", "c", "t", "e", "r">>, D_TOP_BORDER_CHARACTER, "parse_char"),
    general_parse(map, <<"t", "l", "_", "c", "o", "r", "n", "e", "r", "_", "c", "h", "a", "r", "a", "c", "t", "e", "r">>, D_TL_CORNER_CHARACTER, "parse_char"),
    general_parse(map, <<"l", "e", "f", "t", "_", "b", "o", "r", "d", "e", "r", "_", "c", "h", "a", "r", "a", "c", "t", "e", "r">>, D_LEFT_BORDER_CHARACTER, "parse_char"),
    general_parse(map, <<"b", "l", "_", "c", "o", "r", "n", "e", "r", "_", "c", "h", "a", "r", "a", "c", "t", "e", "r">>, D_BL_CORNER_CHARACTER, "parse_char"),
    general_parse(map, <<"b", "o", "t", "t", "o", "m", "_", "b", "o", "r", "d", "e", "r", "_", "c", "h", "a", "r", "a", "c", "t", "e", "r">>, D_BOTTOM_BORDER_CHARACTER,
        "parse_char"),
    general_parse(map, <<"b", "r", "_", "c", "o", "r", "n", "e", "r", "_", "c", "h", "a", "r", "a", "c", "t", "e", "r">>, D_BR_CORNER_CHARACTER, "parse_char"),
    general_parse(map, <<"r", "i", "g", "h", "t", "_", "b", "o", "r", "d", "e", "r", "_", "c", "h", "a", "r", "a", "c", "t", "e", "r">>, D_RIGHT_BORDER_CHARACTER, "parse_char"),
    general_parse(map, <<"t", "r", "_", "c", "o", "r", "n", "e", "r", "_", "c", "h", "a", "r", "a", "c", "t", "e", "r">>, D_TR_CORNER_CHARACTER, "parse_char"),
    general_parse(map, <<"b", "a", "c", "k", "g", "r", "o", "u", "n", "d", "_", "c", "o", "l", "o", "r">>, D_BACKGROUND_COLOR, "parse_color"),
    general_parse(map, <<"b", "l", "o", "c", "k", "_", "c", "h", "a", "r", "a", "c", "t", "e", "r">>, D_BLOCK_CHARACTER, "parse_char"),
    parse_num_range(map, <<"b", "l", "o", "c", "k", "_", "s", "i", "z", "e">>, D_BLOCK_SIZE, U64(1), "Failed to parse block size value.", "Block size must be greater than or equal to 1."),
    general_parse(map, <<"i", "_", "c", "o", "l", "o", "r">>, D_I_COLOR, "parse_color"),
    general_parse(map, <<"j", "_", "c", "o", "l", "o", "r">>, D_J_COLOR, "parse_color"),
    general_parse(map, <<"l", "_", "c", "o", "l", "o", "r">>, D_L_COLOR, "parse_color"),
    general_parse(map, <<"s", "_", "c", "o", "l", "o", "r">>, D_S_COLOR, "parse_color"),
    general_parse(map, <<"z", "_", "c", "o", "l", "o", "r">>, D_Z_COLOR, "parse_color"),
    general_parse(map, <<"t", "_", "c", "o", "l", "o", "r">>, D_T_COLOR, "parse_color"),
    general_parse(map, <<"o", "_", "c", "o", "l", "o", "r">>, D_O_COLOR, "parse_color") >>

\* the decoded locals, or the error of the first lookup that failed
DecodeFields(map) ==
    Let(Lookups(map), LAMBDA all :
        IF \E i \in 1..Len(all) : ~all[i].ok
        THEN FirstErr(all)
        ELSE Ok([
            fps |-> all[1].val, board_width |-> all[2].val,
            board_height |-> all[3].val, mode |-> all[4].val, left |-> all[5].val,
            right |-> all[6].val, rot_cw |-> all[7].val, rot_acw |-> all[8].val,
            soft_drop |-> all[9].val, hard_drop |-> all[10].val, hold |-> all[11].val,
            ghost_tetromino_character |-> all[12].val,
            ghost_tetromino_color |-> all[13].val, cascade |-> all[14].val,
            const_level |-> all[15].val, monochrome |-> all[16].val,
            border_color |-> all[17].val, top_border_character |-> all[18].val,
            tl_corner_character |-> all[19].val, left_border_character |-> all[20].val,
            bl_corner_character |-> all[21].val,
            bottom_border_character |-> all[22].val,
            br_corner_character |-> all[23].val,
            right_border_character |-> all[24].val,
            tr_corner_character |-> all[25].val, background_color |-> all[26].val,
            block_character |-> all[27].val, block_size |-> all[28].val,
            i_color |-> all[29].val, j_color |-> all[30].val, l_color |-> all[31].val,
            s_color |-> all[32].val, z_color |-> all[33].val, t_color |-> all[34].val,
            o_color |-> all[35].val]))

\* BoardErrorLine with board_width looked up first
BoardErrorLineWidthFirst(map) ==
    IF <<"b", "o", "a", "r", "d", "_", "w", "i", "d", "t", "h">> \in DOMAIN map THEN Ok(map[<<"b", "o", "a", "r", "d", "_", "w", "i", "d", "t", "h">>])
    ELSE IF <<"b", "o", "a", "r", "d", "_", "h", "e", "i", "g", "h", "t">> \in DOMAIN map THEN Ok(map[<<"b", "o", "a", "r", "d", "_", "h", "e", "i", "g", "h", "t">>])
    ELSE IF <<"b", "l", "o", "c", "k", "_", "s", "i", "z", "e">> \in DOMAIN map THEN Ok(map[<<"b", "l", "o", "c", "k", "_", "s", "i", "z", "e">>])
    ELSE Panic("internal error: entered unreachable code")

\* the setting line the board-size error is attributed to
BoardErrorLine(map) ==
    IF <<"b", "l", "o", "c", "k", "_", "s", "i", "z", "e">> \in DOMAIN map THEN Ok(map[<<"b", "l", "o", "c", "k", "_", "s", "i", "z", "e">>])
    ELSE IF <<"b", "o", "a", "r", "d", "_", "h", "e", "i", "g", "h", "t">> \in DOMAIN map THEN Ok(map[<<"b", "o", "a", "r", "d", "_", "h", "e", "i", "g", "h", "t">>])
    ELSE IF <<"b", "o", "a", "r", "d", "_", "w", "i", "d", "t", "h">> \in DOMAIN map THEN Ok(map[<<"b", "o", "a", "r", "d", "_", "w", "i", "d", "t", "h">>])
    ELSE Panic("internal error: entered unreachable code")

\* block_size * 4 in usize: the low 64 bits, and whether the product overflowed
BlockSizeTimes4(block_size) == U64MulAdd(block_size, 4, 0)

\* MonochromeOverride without the assignment to o_color
MonochromeOverrideSixColors(f) ==
    [f EXCEPT !.i_color = Unwrap(f.monochrome),
              !.j_color = Unwrap(f.monochrome),
              !.l_color = Unwrap(f.monochrome),
              !.s_color = Unwrap(f.monochrome),
              !.z_color = Unwrap(f.monochrome),
              !.t_color = Unwrap(f.monochrome)]

\* "Monochrome setting overrides piece colors, but not border or background colors."
MonochromeOverride(f) ==
    [f EXCEPT !.i_color = Unwrap(f.monochrome),
              !.j_color = Unwrap(f.monochrome),
              !.l_color = Unwrap(f.monochrome),
              !.s_color = Unwrap(f.monochrome),
              !.z_color = Unwrap(f.monochrome),
              !.t_color = Unwrap(f.monochrome),
              !.o_color = Unwrap(f.monochrome)]

\* "Classic mode doesn't have the ghost tetromino, hard drops, or holds."
ClassicStrip(f) ==
    [f EXCEPT !.hard_drop = None, !.hold = None,
              !.ghost_tetromino_character = None,
              !.ghost_tetromino_color = None]

\* CrossCheck with the monochrome rule and the classic rule both applied
CrossCheckBothRules(map, f, checks) ==
    Let(BlockSizeTimes4(f.block_size), LAMBDA prod :
        IF prod.carry # 0 /\ checks
        THEN Panic("attempt to multiply with overflow")
        ELSE IF U64Le(f.board_width, prod.val) \/ U64Le(f.board_height, prod.val)
        THEN IF BoardErrorLine(map).ok
             THEN Err(ParseError("InvalidValue", BoardErrorLine(map).val[2],
                      BoardErrorLine(map).val[3],
                      Some("Board dimensions must be greater than or equal to block size.")))
             ELSE BoardErrorLine(map)
        ELSE IF IsSome(f.monochrome) /\ f.mode = "Classic"
        THEN Ok(ClassicStrip(MonochromeOverride(f)))
        ELSE IF IsSome(f.monochrome) THEN Ok(MonochromeOverride(f))
        ELSE IF f.mode = "Classic" THEN Ok(ClassicStrip(f))
        ELSE Ok(f))

\* the cross-field rules and the construction of the record, from the decoded
\* locals f; checks is TRUE in a build whose arithmetic overflow panics
CrossCheck(map, f, checks) ==
    Let(BlockSizeTimes4(f.block_size), LAMBDA prod :
        IF prod.carry # 0 /\ checks
        THEN Panic("attempt to multiply with overflow")
        ELSE IF U64Le(f.board_width, prod.val) \/ U64Le(f.board_height, prod.val)
        THEN IF BoardErrorLine(map).ok
             THEN Err(ParseError("InvalidValue", BoardErrorLine(map).val[2],
                      BoardErrorLine(map).val[3],
                      Some("Board dimensions must be greater than or equal to block size.")))
             ELSE BoardErrorLine(map)
        ELSE IF IsSome(f.monochrome) THEN Ok(MonochromeOverride(f))
        ELSE IF f.mode = "Classic" THEN Ok(ClassicStrip(f))
        ELSE Ok(f))

---------------------------------------------------------------------------
(* Display for GameConfig *)

mode_string(mode) == IF mode = "Classic" THEN <<"c", "l", "a", "s", "s", "i", "c">> ELSE <<"m", "o", "d", "e", "r", "n">>

keyevent_string(keyevent) ==
    CASE keyevent[1] = "Char" -> (IF keyevent[2] = " " THEN <<"s", "p", "a", "c", "e">> ELSE <<keyevent[2]>>)
      [] keyevent[1] = "Left" -> <<"l", "e", "f", "t">>
      [] keyevent[1] = "Right" -> <<"r", "i", "g", "h", "t">>
      [] keyevent[1] = "Up" -> <<"u", "p">>
      [] keyevent[1] = "Down" -> <<"d", "o", "w", "n">>
      [] keyevent[1] = "ShiftLeft" -> <<"l", "s", "h", "i", "f", "t">>
      [] keyevent[1] = "ShiftRight" -> <<"r", "s", "h", "i", "f", "t">>
      [] keyevent[1] = "CtrlLeft" -> <<"l", "c", "t", "r", "l">>
      [] keyevent[1] = "CtrlRight" -> <<"r", "c", "t", "r", "l">>
      [] keyevent[1] = "Esc" -> <<"e", "s", "c">>

opt_keyevent_string(opt_keyevent) ==
    IF IsSome(opt_keyevent) THEN keyevent_string(Unwrap(opt_keyevent)) ELSE <<"n", "o", "n", "e">>

opt_char_string(opt_char) ==
    IF IsSome(opt_char) THEN <<Unwrap(opt_char)>> ELSE <<"n", "o", "n", "e">>

\* color_string with the components separated by spaces instead of commas
color_string_spaces(color) ==
    CASE color[1] = "Rgb" ->
            <<"r", "g", "b", " ">> \o U8ToString(color[2]) \o <<" ">> \o U8ToString(color[3])
                     \o <<" ">> \o U8ToString(color[4])
      [] color[1] = "AnsiValue" -> <<"a", "n", "s", "i", " ">> \o U8ToString(color[2])

color_string(color) ==
    CASE color[1] = "Rgb" ->
            <<"r", "g", "b", " ">> \o U8ToString(color[2]) \o <<",">> \o U8ToString(color[3])
                     \o <<",">> \o U8ToString(color[4])
      [] color[1] = "AnsiValue" -> <<"a", "n", "s", "i", " ">> \o U8ToString(color[2])

opt_color_string(opt_color) ==
    IF IsSome(opt_color) THEN color_string(Unwrap(opt_color)) ELSE <<"n", "o", "n", "e">>

bool_string(b) == IF b THEN <<"t">> ELSE <<"f">>

opt_usize_string(opt_usize) ==
    IF IsSome(opt_usize) THEN U64ToString(Unwrap(opt_usize)) ELSE <<"n", "o", "n", "e">>

\* SettingLine writing the line twice
SettingLineTwice(key, value) ==
    key \o <<" ", "=", " ">> \o value \o <<"\n">> \o key \o <<" ", "=", " ">> \o value \o <<"\n">>

\* one "key = {}\n" piece of the format string
SettingLine(key, value) == key \o <<" ", "=", " ">> \o value \o <<"\n">>

\* impl Display for GameConfig: the text of self.to_string()
GameConfigToString(c) ==
    SettingLine(<<"f", "p", "s">>, U64ToString(c.fps))
    \o SettingLine(<<"b", "o", "a", "r", "d", "_", "w", "i", "d", "t", "h">>, U64ToString(c.board_width))
    \o SettingLine(<<"b", "o", "a", "r", "d", "_", "h", "e", "i", "g", "h", "t">>, U64ToString(c.board_height))
    \o SettingLine(<<"m", "o", "d", "e">>, mode_string(c.mode))
    \o SettingLine(<<"m", "o", "v", "e", "_", "l", "e", "f", "t">>, keyevent_string(c.left))
    \o SettingLine(<<"m", "o", "v", "e", "_", "r", "i", "g", "h", "t">>, keyevent_string(c.right))
    \o SettingLine(<<"r", "o", "t", "a", "t", "e", "_", "c", "l", "o", "c", "k", "w", "i", "s", "e">>, keyevent_string(c.rot_cw))
    \o SettingLine(<<"r", "o", "t", "a", "t", "e", "_", "a", "n", "t", "i", "c", "l", "o", "c", "k", "w", "i", "s", "e">>, keyevent_string(c.rot_acw))
    \o SettingLine(<<"s", "o", "f", "t", "_", "d", "r", "o", "p">>, keyevent_string(c.soft_drop))
    \o SettingLine(<<"h", "a", "r", "d", "_", "d", "r", "o", "p">>, opt_keyevent_string(c.hard_drop))
    \o SettingLine(<<"h", "o", "l", "d">>, opt_keyevent_string(c.hold))
    \o SettingLine(<<"g", "h", "o", "s", "t", "_", "t", "e", "t", "r", "o", "m", "i", "n", "o", "_", "c", "h", "a", "r", "a", "c", "t", "e", "r">>, opt_char_string(c.ghost_tetromino_character))
    \o SettingLine(<<"g", "h", "o", "s", "t", "_", "t", "e", "t", "r", "o", "m", "i", "n", "o", "_", "c", "o", "l", "o", "r">>, opt_color_string(c.ghost_tetromino_color))
    \o SettingLine(<<"c", "a", "s", "c", "a", "d", "e">>, bool_string(c.cascade))
    \o SettingLine(<<"c", "o", "n", "s", "t", "_", "l", "e", "v", "e", "l">>, opt_usize_string(c.const_level))
    \o SettingLine(<<"m", "o", "n", "o", "c", "h", "r", "o", "m", "e">>, opt_color_string(c.monochrome))
    \o SettingLine(<<"b", "o", "r", "d", "e", "r", "_", "c", "o", "l", "o", "r">>, color_string(c.border_color))
    \o SettingLine(<<"t", "o", "p", "_", "b", "o", "r", "d", "e", "r", "_", "c", "h", "a", "r", "a", "c", "t", "e", "r">>, <<c.top_border_character>>)
    \o SettingLine(<<"t", "l", "_", "c", "o", "r", "n", "e", "r", "_", "c", "h", "a", "r", "a", "c", "t", "e", "r">>, <<c.tl_corner_character>>)
    \o SettingLine(<<"l", "e", "f", "t", "_", "b", "o", "r", "d", "e", "r", "_", "c", "h", "a", "r", "a", "c", "t", "e", "r">>, <<c.left_border_character>>)
    \o SettingLine(<<"b", "l", "_", "c", "o", "r", "n", "e", "r", "_", "c", "h", "a", "r", "a", "c", "t", "e", "r">>, <<c.bl_corner_character>>)
    \o SettingLine(<<"b", "o", "t", "t", "o", "m", "_", "b", "o", "r", "d", "e", "r", "_", "c", "h", "a", "r", "a", "c", "t", "e", "r">>, <<c.bottom_border_character>>)
    \o SettingLine(<<"b", "r", "_", "c", "o", "r", "n", "e", "r", "_", "c", "h", "a", "r", "a", "c", "t", "e", "r">>, <<c.br_corner_character>>)
    \o SettingLine(<<"r", "i", "g", "h", "t", "_", "b", "o", "r", "d", "e", "r", "_", "c", "h", "a", "r", "a", "c", "t", "e", "r">>, <<c.right_border_character>>)
    \o SettingLine(<<"t", "r", "_", "c", "o", "r", "n", "e", "r", "_", "c", "h", "a", "r", "a", "c", "t", "e", "r">>, <<c.tr_corner_character>>)
    \o SettingLine(<<"b", "a", "c", "k", "g", "r", "o", "u", "n", "d", "_", "c", "o", "l", "o", "r">>, color_string(c.background_color))
    \o SettingLine(<<"b", "l", "o", "c", "k", "_", "c", "h", "a", "r", "a", "c", "t", "e", "r">>, <<c.block_character>>)
    \o SettingLine(<<"b", "l", "o", "c", "k", "_", "s", "i", "z", "e">>, U64ToString(c.block_size))
    \o SettingLine(<<"i", "_", "c", "o", "l", "o", "r">>, color_string(c.i_color))
    \o SettingLine(<<"j", "_", "c", "o", "l", "o", "r">>, color_string(c.j_color))
    \o SettingLine(<<"l", "_", "c", "o", "l", "o", "r">>, color_string(c.l_color))
    \o SettingLine(<<"s", "_", "c", "o", "l", "o", "r">>, color_string(c.s_color))
    \o SettingLine(<<"z", "_", "c", "o", "l", "o", "r">>, color_string(c.z_color))
    \o SettingLine(<<"t", "_", "c", "o", "l", "o", "r">>, color_string(c.t_color))
    \o SettingLine(<<"o", "_", "c", "o", "l", "o", "r">>, color_string(c.o_color))

---------------------------------------------------------------------------
(* The configuration files the model reads *)

MaxFieldLines == 1
MaxCrossLines == 3
MaxTokenLines == 3

\* for each recognized setting, in the order of CONFIG_OPTIONS: a value text
\* that its parser accepts and that differs from the default
AcceptedValue == <<
    <<"3", "0">>, <<"1", "2">>, <<"2", "4">>, <<"r", "g", "b", " ", "1", "0", ",", "1", "0", ",", "1", "0">>, <<"t">>,
    <<"5">>, <<"x">>, <<"a", "n", "s", "i", " ", "7">>,
    <<"-">>, <<"|">>,
    <<"_">>, <<"!">>,
    <<"/">>, <<"L">>, <<"J">>,
    <<"U+00E9">>, <<"r", "g", "b", " ", "1", ",", "2", ",", "3">>, <<"X">>,
    <<"2">>, <<"C", "l", "a", "s", "s", "i", "c">>, <<"a">>, <<"d">>,
    <<"e">>, <<"q">>, <<"s">>,
    <<"w">>, <<"v">>, <<"R", "G", "B", " ", "9", ",", "9", ",", "9">>, <<"r", "g", "b", " ", "1", ",", "1", ",", "1">>, <<"a", "n", "s", "i", " ", "2">>,
    <<"r", "g", "b", " ", "3", ",", "3", ",", "3">>, <<"r", "g", "b", " ", "4", ",", "4", ",", "4">>, <<"r", "g", "b", " ", "5", ",", "5", ",", "5">>, <<"r", "g", "b", " ", "6", ",", "6", ",", "6">>, <<"r", "g", "b", " ", "2", "5", "5", ",", "0", ",", "7">> >>

\* for each recognized setting, in the order of CONFIG_OPTIONS: a value text
\* outside the grammar of its type
RejectedValue == <<
    <<"0">>, <<"t", "e", "n">>, <<"-", "1">>, <<"b", "l", "u", "e">>, <<"m", "a", "y", "b", "e">>,
    <<"0">>, <<"x", "y">>, <<"r", "g", "b", " ", "1", ",", "2">>,
    <<"a", "b">>, <<"a", "b">>,
    <<"a", "b">>, <<"a", "b">>,
    <<"a", "b">>, <<"a", "b">>, <<"a", "b">>,
    <<"n", "o", "n", "e">>, <<"r", "g", "b", " ", "2", "5", "6", ",", "0", ",", "0">>, <<"a", "b">>,
    <<"1", "8", "4", "4", "6", "7", "4", "4", "0", "7", "3", "7", "0", "9", "5", "5", "1", "6", "1", "6">>, <<"r", "e", "t", "r", "o">>, <<"f", "o", "o">>, <<"f", "o", "o">>,
    <<"f", "o", "o">>, <<"f", "o", "o">>, <<"t", "a", "b">>,
    <<"U+00E9">>, <<"c", "t", "r", "l">>, <<"a", "n", "s", "i", " ", "3", "0", "0">>, <<"h", "s", "v", " ", "1", ",", "2", ",", "3">>, <<"r", "g", "b">>,
    <<"r", "g", "b", " ", "1", ",", ",", "3">>, <<"a", "n", "s", "i", " ", "x">>, <<"n", "o", "n", "e">>, <<"r", "g", "b", " ", "a", ",", "b", ",", "c">>, <<"7">> >>

\* other single settings: the none sentinel, named keys, signs and limits
OtherSettings == {
    <<"h", "a", "r", "d", "_", "d", "r", "o", "p", " ", "=", " ", "n", "o", "n", "e">>, <<"h", "o", "l", "d", " ", "=", " ", "N", "o", "n", "e">>, <<"g", "h", "o", "s", "t", "_", "t", "e", "t", "r", "o", "m", "i", "n", "o", "_", "c", "h", "a", "r", "a", "c", "t", "e", "r", " ", "=", " ", "n", "o", "n", "e">>,
    <<"g", "h", "o", "s", "t", "_", "t", "e", "t", "r", "o", "m", "i", "n", "o", "_", "c", "o", "l", "o", "r", " ", "=", " ", "N", "O", "N", "E">>, <<"c", "o", "n", "s", "t", "_", "l", "e", "v", "e", "l", " ", "=", " ", "n", "o", "n", "e">>, <<"m", "o", "n", "o", "c", "h", "r", "o", "m", "e", " ", "=", " ", "n", "o", "n", "e">>,
    <<"f", "p", "s", " ", "=", " ", "+", "6", "0">>, <<"f", "p", "s", " ", "=", " ", "1", "8", "4", "4", "6", "7", "4", "4", "0", "7", "3", "7", "0", "9", "5", "5", "1", "6", "1", "5">>, <<"h", "o", "l", "d", " ", "=", " ", "s", "p", "a", "c", "e">>,
    <<"h", "a", "r", "d", "_", "d", "r", "o", "p", " ", "=", " ", "e", "s", "c">>, <<"s", "o", "f", "t", "_", "d", "r", "o", "p", " ", "=", " ", "l", "c", "t", "r", "l">>, <<"c", "a", "s", "c", "a", "d", "e", " ", "=", " ", "F", "A", "L", "S", "E">>,
    <<"m", "o", "d", "e", " ", "=", " ", "m">>, <<"i", "_", "c", "o", "l", "o", "r", " ", "=", " ", "r", "g", "b", " ", "1", ",", "2", ",", "3", ",", "4">>, <<"j", "_", "c", "o", "l", "o", "r", " ", "=", " ", "a", "n", "s", "i", " ", "0", " ", "0">> }

\* the lines combined to exercise the cross-field rules
CrossPool == {
    <<"b", "o", "a", "r", "d", "_", "w", "i", "d", "t", "h", " ", "=", " ", "3">>, <<"b", "l", "o", "c", "k", "_", "s", "i", "z", "e", " ", "=", " ", "1">>, <<"b", "o", "a", "r", "d", "_", "h", "e", "i", "g", "h", "t", " ", "=", " ", "4">>,
    <<"b", "o", "a", "r", "d", "_", "w", "i", "d", "t", "h", " ", "=", " ", "8">>, <<"b", "l", "o", "c", "k", "_", "s", "i", "z", "e", " ", "=", " ", "2">>,
    <<"b", "l", "o", "c", "k", "_", "s", "i", "z", "e", " ", "=", " ", "4", "6", "1", "1", "6", "8", "6", "0", "1", "8", "4", "2", "7", "3", "8", "7", "9", "0", "4">>,
    <<"m", "o", "d", "e", " ", "=", " ", "c", "l", "a", "s", "s", "i", "c">>, <<"h", "o", "l", "d", " ", "=", " ", "v">>, <<"m", "o", "n", "o", "c", "h", "r", "o", "m", "e", " ", "=", " ", "r", "g", "b", " ", "1", "0", ",", "1", "0", ",", "1", "0">>,
    <<"i", "_", "c", "o", "l", "o", "r", " ", "=", " ", "r", "g", "b", " ", "1", ",", "2", ",", "3">>, <<"b", "o", "r", "d", "e", "r", "_", "c", "o", "l", "o", "r", " ", "=", " ", "a", "n", "s", "i", " ", "7">> }

\* the lines combined to exercise the tokenizer and the order of the errors:
\* empty, blank, comment, malformed, unknown, repeated, with a second '=', with an
\* invalid value
TokenPool == {
    <<>>, <<" ">>, <<"#", " ", "f", "p", "s", " ", "=", " ", "1">>, <<"f", "o", "o">>, <<" ", "=", " ", "5">>, <<"f", "p", "s", " ", "=">>, <<"s", "p", "e", "e", "d", " ", "=", " ", "3">>,
    <<"f", "p", "s", " ", "=", " ", "3", "0">>, <<"f", "p", "s", " ", "=", " ", "0">>, <<"b", "o", "a", "r", "d", "_", "w", "i", "d", "t", "h", " ", "=", " ", "t", "e", "n">>, <<"f", "p", "s", " ", "=", " ", "6", "0", " ", "=", " ", "7", "0">> }

Setting(key, value) == key \o <<" ", "=", " ">> \o value

FieldPool ==
    {Setting(CONFIG_OPTIONS[i], AcceptedValue[i]) : i \in 1..Len(CONFIG_OPTIONS)}
    \cup {Setting(CONFIG_OPTIONS[i], RejectedValue[i]) : i \in 1..Len(CONFIG_OPTIONS)}
    \cup OtherSettings

SeqsUpTo(S, n) == UNION {[1..k -> S] : k \in 0..n}

RECURSIVE JoinLines(_)
JoinLines(ls) == IF ls = <<>> THEN <<>> ELSE Head(ls) \o <<"\n">> \o JoinLines(Tail(ls))

Files ==
    {JoinLines(ls) : ls \in SeqsUpTo(FieldPool, MaxFieldLines)}
    \cup {JoinLines(ls) : ls \in SeqsUpTo(CrossPool, MaxCrossLines)}
    \cup {JoinLines(ls) : ls \in SeqsUpTo(TokenPool, MaxTokenLines)}

\* Path::new("./tui_tetris.conf").exists() is false
Missing == <<"missing">>

---------------------------------------------------------------------------
(* The run of main and of GameConfig::parse *)

NotReturned == [ok |-> FALSE, pending |-> TRUE]
NoFields == [none |-> TRUE]

DecoderIdle ==
    /\ sequence_number = 0
    /\ in_use = <<>>
    /\ picks = <<>>
    /\ dpc = "idle"
    /\ fell_through = FALSE
    /\ sequence = <<>>
    /\ index = 0

InitConfig ==
    /\ text \in Files \cup {Missing}
    /\ overflow_checks \in BOOLEAN
    /\ pc = "main"
    /\ unread = <<>>
    /\ num = 0
    /\ settings = EmptySettings
    /\ fields = NoFields
    /\ result = NotReturned
    /\ written = None
    /\ DecoderIdle

\* main, no config file: the default config is written to a new file
MainCreate ==
    /\ pc = "main"
    /\ text = Missing
    /\ written' = Some(GameConfigDefault)
    /\ text' = GameConfigToString(GameConfigDefault)
    /\ UNCHANGED <<overflow_checks, pc, unread, num, settings, fields, result>>
    /\ UNCHANGED dvars

\* main, the config file exists: its contents are handed to GameConfig::parse
MainParse ==
    /\ pc = "main"
    /\ text # Missing
    /\ pc' = "tokenize"
    /\ unread' = text
    /\ num' = 0
    /\ settings' = EmptySettings
    /\ fields' = NoFields
    /\ result' = NotReturned
    /\ UNCHANGED <<text, overflow_checks, written>>
    /\ UNCHANGED dvars

\* one iteration of the tokenizer loop, or its end
Tokenize ==
    /\ pc = "tokenize"
    /\ IF unread = <<>>
       THEN /\ pc' = "decode"
            /\ UNCHANGED <<unread, num, settings, result>>
       ELSE \E next \in {NextLine(unread)} :
            \E r \in {TokenizeLine(settings, num, next.line)} :
               IF r.ok
               THEN /\ settings' = r.val
                    /\ unread' = next.rest
                    /\ num' = num + 1
                    /\ UNCHANGED <<pc, result>>
               ELSE /\ result' = r
                    /\ pc' = "done"
                    /\ UNCHANGED <<unread, num, settings>>
    /\ UNCHANGED <<text, overflow_checks, fields, written>>
    /\ UNCHANGED dvars

\* every setting is looked up and decoded
Decode ==
    /\ pc = "decode"
    /\ \E r \in {DecodeFields(settings)} :
          IF r.ok
          THEN /\ fields' = r.val
               /\ pc' = "cross"
               /\ UNCHANGED result
          ELSE /\ result' = r
               /\ pc' = "done"
               /\ UNCHANGED fields
    /\ UNCHANGED <<text, overflow_checks, unread, num, settings, written>>
    /\ UNCHANGED dvars

\* the cross-field rules, and the return of the record
CrossValidate ==
    /\ pc = "cross"
    /\ result' = CrossCheck(settings, fields, overflow_checks)
    /\ pc' = "done"
    /\ UNCHANGED <<text, overflow_checks, unread, num, settings, fields, written>>
    /\ UNCHANGED dvars

\* GameConfig::write_to_file on the parsed record; the next run reads the file
WriteToFile ==
    /\ pc = "done"
    /\ result.ok
    /\ written = None
    /\ written' = Some(result.val)
    /\ text' = GameConfigToString(result.val)
    /\ pc' = "main"
    /\ UNCHANGED <<overflow_checks, unread, num, settings, fields, result>>
    /\ UNCHANGED dvars

NextConfig ==
    \/ MainCreate
    \/ MainParse
    \/ Tokenize
    \/ Decode
    \/ CrossValidate
    \/ WriteToFile

SpecConfig == InitConfig /\ [][NextConfig]_vars

---------------------------------------------------------------------------
(* decode_sequence_number *)

\* the number of sequence indices, 7!
SEQUENCE_COUNT == 5040

Tetromino == <<"I", "J", "L", "S", "Z", "T", "O">>

\* impl From<u16> for Tetromino; every caller passes a value in 0..6
TetrominoFrom(other) == Tetromino[other + 1]

\* the guarded arms of the five matches, each <<start, end, p, subtract>>
\* for the arm "_ if (start..end).contains(&sequence_number) => (p, subtract)"
P0Arms == << <<0, 720, 0, 0>>, <<720, 1440, 1, 720>>, <<1440, 2160, 2, 1440>>,
             <<2160, 2880, 3, 2160>>, <<2880, 3600, 4, 2880>>,
             <<3600, 4320, 5, 3600>>, <<4320, 5040, 6, 4320>> >>
P1Arms == << <<0, 120, 0, 0>>, <<120, 240, 1, 120>>, <<240, 360, 2, 240>>,
             <<360, 480, 3, 360>>, <<480, 600, 4, 480>>, <<600, 720, 5, 600>> >>
\* P2Arms with the value of the third arm mistyped
P2ArmsMistyped == << <<0, 24, 0, 0>>, <<24, 48, 1, 24>>, <<48, 72, 3, 48>>,
                     <<72, 96, 3, 72>>, <<96, 120, 4, 96>> >>
P2Arms == << <<0, 24, 0, 0>>, <<24, 48, 1, 24>>, <<48, 72, 2, 48>>,
             <<72, 96, 3, 72>>, <<96, 120, 4, 96>> >>
P3Arms == << <<0, 6, 0, 0>>, <<6, 12, 1, 6>>, <<12, 18, 2, 12>>, <<18, 24, 3, 18>> >>
\* P4Arms with nothing subtracted in the second arm
P4ArmsNoSubtract == << <<0, 2, 0, 0>>, <<2, 4, 1, 0>>, <<4, 6, 2, 4>> >>
P4Arms == << <<0, 2, 0, 0>>, <<2, 4, 1, 2>>, <<4, 6, 2, 4>> >>

\* the arms of the match that chooses p0 (stage 0) .. p4 (stage 4)
StageArms(stage) == <<P0Arms, P1Arms, P2Arms, P3Arms, P4Arms>>[stage + 1]

\* (start..end).contains(&sequence_number)
ArmMatches(arm, sn) == arm[1] <= sn /\ sn < arm[2]

\* what a match can yield: the arm whose guard holds; when none does, the
\* unreachable_unchecked() arm is entered and the behaviour is undefined:
\* the build may continue as if any arm had been taken, or stop ("abort")
MatchOutcomes(arms, sn) ==
    IF \E i \in 1..Len(arms) : ArmMatches(arms[i], sn)
    THEN {arms[i] : i \in {j \in 1..Len(arms) : ArmMatches(arms[j], sn)}}
    ELSE {arms[i] : i \in 1..Len(arms)} \cup {<<"abort">>}

\* whether the match on sn enters its unreachable_unchecked() arm
FallsThrough(arms, sn) == \A i \in 1..Len(arms) : ~ArmMatches(arms[i], sn)

RECURSIVE FindNthLoop(_, _, _)
\* the loop of find_nth_unused from index ind on; usage_map[ind] with
\* ind >= 7 is out of bounds and panics
FindNthLoop(usage_map, n, ind) ==
    IF n > 0
    THEN IF ind >= 7 THEN Panic("index out of bounds")
         ELSE FindNthLoop(usage_map, IF usage_map[ind + 1] THEN n ELSE n - 1, ind + 1)
    ELSE IF ind >= 7 THEN Panic("index out of bounds")
    ELSE IF usage_map[ind + 1] THEN FindNthLoop(usage_map, n, ind + 1)
    ELSE Ok(ind)

find_nth_unused(usage_map, n) == FindNthLoop(usage_map, n, 0)

RECURSIVE FirstUnusedLoop(_, _)
\* let mut p6 = 0; while in_use[p6] { p6 += 1 }
FirstUnusedLoop(usage_map, p6) ==
    IF p6 >= 7 THEN Panic("index out of bounds")
    ELSE IF usage_map[p6 + 1] THEN FirstUnusedLoop(usage_map, p6 + 1)
    ELSE Ok(p6)

\* the locals of decode_sequence_number on entry
DecodeStart(n) ==
    [sequence_number |-> n, in_use |-> [i \in 1..7 |-> FALSE], picks |-> <<>>]

\* Picked without in_use[p] = true
PickedUnmarked(st, sn, p) ==
    [sequence_number |-> sn, in_use |-> st.in_use, picks |-> Append(st.picks, p)]

\* the locals after the pick p is marked used and recorded
Picked(st, sn, p) ==
    [sequence_number |-> sn,
     in_use |-> [st.in_use EXCEPT ![p + 1] = TRUE],
     picks |-> Append(st.picks, p)]

\* one unrolled block of stage 0..4 once its match took arm: the subtraction,
\* the pick (p0 is the arm's value, p1..p4 the arm's value-th unused index)
\* and the marking; a panic of find_nth_unused is passed on
Block(stage, arm, st) ==
    IF stage = 0
    THEN Ok(Picked(st, st.sequence_number - arm[4], arm[3]))
    ELSE Let(find_nth_unused(st.in_use, arm[3]), LAMBDA p :
             IF p.ok THEN Ok(Picked(st, st.sequence_number - arm[4], p.val)) ELSE p)

\* let p5 = find_nth_unused(in_use, sequence_number as usize); in_use[p5] = true
PickP5(st) ==
    Let(find_nth_unused(st.in_use, st.sequence_number), LAMBDA p :
        IF p.ok THEN Ok(Picked(st, st.sequence_number, p.val)) ELSE p)

\* the scan for p6
PickP6(st) ==
    Let(FirstUnusedLoop(st.in_use, 0), LAMBDA p :
        IF p.ok THEN Ok(Picked(st, st.sequence_number, p.val)) ELSE p)

\* the returned array
SequenceOf(ps) == [i \in 1..7 |-> TetrominoFrom(ps[i])]

RECURSIVE DecodeFrom(_, _)
\* the blocks from stage on, for an index every match has an arm for
DecodeFrom(stage, st) ==
    IF stage <= 4
    THEN Let(Block(stage,
                   CHOOSE arm \in MatchOutcomes(StageArms(stage), st.sequence_number) : TRUE,
                   st),
             LAMBDA r : DecodeFrom(stage + 1, r.val))
    ELSE IF stage = 5 THEN Let(PickP5(st), LAMBDA r : DecodeFrom(6, r.val))
    ELSE SequenceOf(PickP6(st).val.picks)

\* decode_sequence_number as a function of an index in 0..5039
decode_sequence_number(n) == DecodeFrom(0, DecodeStart(n))

---------------------------------------------------------------------------
(* A call of decode_sequence_number, block by block *)

MaxBeyond == 2

\* u16::MAX
U16Max == 256 * 256 - 1

\* the indices the model calls the decoder with: all of 0..5039, as Game::new
\* draws them, and some u16 values beyond
Indices ==
    (0..(SEQUENCE_COUNT - 1)) \cup (SEQUENCE_COUNT..(SEQUENCE_COUNT + MaxBeyond))
    \cup {U16Max}

ConfigIdle ==
    /\ text = Missing
    /\ overflow_checks = FALSE
    /\ pc = "idle"
    /\ unread = <<>>
    /\ num = 0
    /\ settings = EmptySettings
    /\ fields = NoFields
    /\ result = NotReturned
    /\ written = None

InitDecoder ==
    /\ index \in Indices
    /\ sequence_number = index
    /\ in_use = DecodeStart(index).in_use
    /\ picks = <<>>
    /\ dpc = "p0"
    /\ fell_through = FALSE
    /\ sequence = <<>>
    /\ ConfigIdle

DecoderLocals == [sequence_number |-> sequence_number, in_use |-> in_use, picks |-> picks]

\* the positions of a call: before the block that chooses p0 .. p6
Position == <<"p0", "p1", "p2", "p3", "p4", "p5", "p6">>

\* the locals are replaced by r's, or the call ends in r's panic
Continue(r, next) ==
    IF r.ok
    THEN /\ sequence_number' = r.val.sequence_number
         /\ in_use' = r.val.in_use
         /\ picks' = r.val.picks
         /\ dpc' = next
    ELSE /\ dpc' = "panicked"
         /\ UNCHANGED <<sequence_number, in_use, picks>>

\* the blocks that choose p0 .. p4
DecodeBlock ==
    /\ \E stage \in 0..4 :
          /\ dpc = Position[stage + 1]
          /\ fell_through' =
                (fell_through \/ FallsThrough(StageArms(stage), sequence_number))
          /\ \E arm \in MatchOutcomes(StageArms(stage), sequence_number) :
                IF arm = <<"abort">>
                THEN /\ dpc' = "aborted"
                     /\ UNCHANGED <<sequence_number, in_use, picks>>
                ELSE Continue(Block(stage, arm, DecoderLocals), Position[stage + 2])
    /\ UNCHANGED <<sequence, index>>
    /\ UNCHANGED cvars

\* p5
DecodeP5 ==
    /\ dpc = "p5"
    /\ Continue(PickP5(DecoderLocals), "p6")
    /\ UNCHANGED <<fell_through, sequence, index>>
    /\ UNCHANGED cvars

\* p6 and the return of the array
DecodeP6 ==
    /\ dpc = "p6"
    /\ \E r \in {PickP6(DecoderLocals)} :
          /\ Continue(r, "done")
          /\ sequence' = IF r.ok THEN SequenceOf(r.val.picks) ELSE sequence
    /\ UNCHANGED <<fell_through, index>>
    /\ UNCHANGED cvars

NextDecoder ==
    \/ DecodeBlock
    \/ DecodeP5
    \/ DecodeP6

SpecDecoder == InitDecoder /\ [][NextDecoder]_vars

---------------------------------------------------------------------------
(* What the settings of a file mean, setting by setting *)

\* the field of GameConfig that Display writes under CONFIG_OPTIONS[i]
FieldName == <<
    "fps", "board_width", "board_height", "monochrome", "cascade", "const_level",
    "ghost_tetromino_character", "ghost_tetromino_color", "top_border_character",
    "left_border_character", "bottom_border_character", "right_border_character",
    "tl_corner_character", "bl_corner_character", "br_corner_character",
    "tr_corner_character", "border_color", "block_character", "block_size", "mode",
    "left", "right", "rot_cw", "rot_acw", "soft_drop", "hard_drop", "hold",
    "background_color", "i_color", "j_color", "l_color", "s_color", "z_color",
    "t_color", "o_color" >>

\* the type of that field: the value parser and lookup helper that decode it
FieldType == <<
    "num", "num", "num", "opt_color", "bool", "opt_num",
    "opt_char", "opt_color", "char",
    "char", "char", "char",
    "char", "char", "char",
    "char", "color", "char", "num", "mode",
    "keyevent", "keyevent", "keyevent", "keyevent", "keyevent", "opt_keyevent",
    "opt_keyevent",
    "color", "color", "color", "color", "color", "color",
    "color", "color" >>

\* a value text decoded by the lookup helper and value parser of a field type
DecodeAs(type, rhs) ==
    Let([k \in {<<"k", "e", "y">>} |-> <<rhs, 0, <<>>>>], LAMBDA map :
        CASE type = "num" -> parse_num_range(map, <<"k", "e", "y">>, U64Zero, U64(1), "", "")
          [] type = "opt_num" -> opt_parse_num_range(map, <<"k", "e", "y">>, None, U64(1), "", "")
          [] type = "mode" -> general_parse(map, <<"k", "e", "y">>, D_MODE, "parse_mode")
          [] type = "bool" -> general_parse(map, <<"k", "e", "y">>, FALSE, "parse_bool")
          [] type = "char" -> general_parse(map, <<"k", "e", "y">>, "", "parse_char")
          [] type = "opt_char" -> opt_general_parse(map, <<"k", "e", "y">>, None, "parse_char")
          [] type = "color" -> general_parse(map, <<"k", "e", "y">>, <<>>, "parse_color")
          [] type = "opt_color" -> opt_general_parse(map, <<"k", "e", "y">>, None, "parse_color")
          [] type = "keyevent" -> general_parse(map, <<"k", "e", "y">>, <<>>, "parse_keyevent")
          [] type = "opt_keyevent" -> opt_general_parse(map, <<"k", "e", "y">>, None, "parse_keyevent"))

PieceColors == {"i_color", "j_color", "l_color", "s_color", "z_color", "t_color", "o_color"}
ModernOnly == {"hard_drop", "hold", "ghost_tetromino_character", "ghost_tetromino_color"}

\* a cross-field rule decides the field of record rec instead of the file
Overridden(field, rec) ==
    \/ field \in PieceColors /\ IsSome(rec.monochrome)
    \/ field \in ModernOnly /\ rec.mode = "Classic"

Returned == pc = "done"
ReturnedOk == pc = "done" /\ result.ok
ReturnedErr == pc = "done" /\ IsErr(result)
\* the table holds every setting of the file and every lookup succeeded
AllDecoded == fields # NoFields
Sets(key) == key \in DOMAIN settings
U64Times4Le(a, b) == U64MulAdd(a, 4, 0).carry = 0 /\ U64Le(U64MulAdd(a, 4, 0).val, b)

---------------------------------------------------------------------------
(* Properties *)

\* C1: a record that was written with Display (the default record, or any
\* record parse returned) is parsed back from that text, equal in every field.
RoundTrip ==
    (Returned /\ IsSome(written)) => (result.ok /\ result.val = Unwrap(written))

RoundTripWitness ==
    /\ ReturnedOk
    /\ IsSome(written)
    /\ result.val = Unwrap(written)
    /\ result.val.mode = "Classic"
    /\ IsSome(result.val.monochrome)
    /\ result.val.hold = Some(<<"Char", "v">>)

DecodeTable == [n \in 0..(SEQUENCE_COUNT - 1) |-> decode_sequence_number(n)]

InDomain == index < SEQUENCE_COUNT

\* C2: for every index below 5040 the decoder returns, its output holds each
\* of the seven tetrominoes exactly once, and no other index below 5040 has
\* the same output.
DecodeBijective ==
    InDomain =>
        /\ dpc \notin {"panicked", "aborted"}
        /\ dpc = "done" =>
              /\ \A t \in Range(Tetromino) :
                    Cardinality({i \in 1..7 : sequence[i] = t}) = 1
              /\ \A m \in 0..(SEQUENCE_COUNT - 1) :
                    m # index => DecodeTable[m] # sequence

DecodeBijectiveWitness ==
    /\ index = SEQUENCE_COUNT - 1
    /\ dpc = "done"
    /\ sequence = <<"O", "T", "Z", "S", "L", "J", "I">>

RECURSIVE Factorial(_)
Factorial(k) == IF k = 0 THEN 1 ELSE k * Factorial(k - 1)

Without(s, i) == SubSeq(s, 1, i - 1) \o SubSeq(s, i + 1, Len(s))

RECURSIVE Unrank(_, _, _)
\* the factorial-number-system unranking: digit k of r selects among the
\* symbols not yet emitted, the last symbol is the one left
Unrank(k, r, unused) ==
    IF k = 6 THEN unused
    ELSE <<unused[(r \div Factorial(6 - k)) + 1]>>
         \o Unrank(k + 1, r % Factorial(6 - k),
                   Without(unused, (r \div Factorial(6 - k)) + 1))

\* C3: for every index below 5040 the returned array is the Lehmer-code
\* unranking of the index over I, J, L, S, Z, T, O.
DecodeIsUnrank ==
    (InDomain /\ dpc = "done") => sequence = Unrank(0, index, Tetromino)

DecodeIsUnrankWitness ==
    /\ index = 1234
    /\ dpc = "done"
    /\ sequence = Unrank(0, 1234, Tetromino)
    /\ sequence # Tetromino

\* C4: an index of 5040 or more is rejected with an error: no unreachable
\* arm is entered and no array is returned.
OutOfRangeRejected ==
    ~InDomain => (~fell_through /\ dpc \in {"p0", "rejected"})

\* C5: a returned record whose mode is Classic has no hard drop, hold or
\* ghost tetromino, whatever else the file sets.
ClassicHasNoModernFeatures ==
    (ReturnedOk /\ result.val.mode = "Classic") =>
        /\ result.val.hard_drop = None
        /\ result.val.hold = None
        /\ result.val.ghost_tetromino_character = None
        /\ result.val.ghost_tetromino_color = None

\* the color a setting of the table gives, or the default without it
ColorSetting(key, default) ==
    IF Sets(key) THEN parse_color(settings[key][1], 0, <<>>).val ELSE default

\* C6: when the file sets monochrome to a color, the seven piece colors of
\* the returned record are that color, and border_color and background_color
\* are the file's (or the default).
MonochromeFrame ==
    (/\ ReturnedOk
     /\ Sets(<<"m", "o", "n", "o", "c", "h", "r", "o", "m", "e">>)
     /\ ToAsciiLowercase(settings[<<"m", "o", "n", "o", "c", "h", "r", "o", "m", "e">>][1]) # <<"n", "o", "n", "e">>) =>
        /\ \A field \in PieceColors :
              result.val[field] = ColorSetting(<<"m", "o", "n", "o", "c", "h", "r", "o", "m", "e">>, <<>>)
        /\ result.val.border_color = ColorSetting(<<"b", "o", "r", "d", "e", "r", "_", "c", "o", "l", "o", "r">>, D_BORDER_COLOR)
        /\ result.val.background_color =
              ColorSetting(<<"b", "a", "c", "k", "g", "r", "o", "u", "n", "d", "_", "c", "o", "l", "o", "r">>, D_BACKGROUND_COLOR)

MonochromeFrameWitness ==
    /\ ReturnedOk
    /\ written = None
    /\ Sets(<<"m", "o", "n", "o", "c", "h", "r", "o", "m", "e">>)
    /\ Sets(<<"i", "_", "c", "o", "l", "o", "r">>)
    /\ Sets(<<"b", "o", "r", "d", "e", "r", "_", "c", "o", "l", "o", "r">>)
    /\ result.val.i_color = <<"Rgb", 10, 10, 10>>
    /\ result.val.o_color = <<"Rgb", 10, 10, 10>>
    /\ result.val.border_color = <<"AnsiValue", 7>>
    /\ result.val.background_color = D_BACKGROUND_COLOR

\* the file has this line
HasLine(line) == \E i \in 1..Len(Lines(text)) : Lines(text)[i] = line
\* the error is attributed to this line of the file
ErrorAt(line) ==
    /\ result.err.line = line
    /\ result.err.line_num + 1 \in 1..Len(Lines(text))
    /\ Lines(text)[result.err.line_num + 1] = line

SmallBoardFile ==
    /\ written = None
    /\ text # Missing
    /\ HasLine(<<"b", "o", "a", "r", "d", "_", "w", "i", "d", "t", "h", " ", "=", " ", "3">>)
    /\ HasLine(<<"b", "l", "o", "c", "k", "_", "s", "i", "z", "e", " ", "=", " ", "1">>)
    /\ \A i \in 1..Len(Lines(text)) :
          Trim(Split(Lines(text)[i], "=")[1]) # <<"b", "o", "a", "r", "d", "_", "h", "e", "i", "g", "h", "t">>

\* C7 as stated: a file with board_width = 3 and block_size = 1 and no
\* board_height fails with InvalidValue at the board_width line.
SmallBoardBlamesWidth ==
    (Returned /\ SmallBoardFile) =>
        /\ IsErr(result)
        /\ result.err.kind = "InvalidValue"
        /\ ErrorAt(<<"b", "o", "a", "r", "d", "_", "w", "i", "d", "t", "h", " ", "=", " ", "3">>)

\* C7 amended: such a file, when every line tokenizes and every setting
\* decodes, fails with InvalidValue at the block_size line.
SmallBoardBlamesBlockSize ==
    (Returned /\ SmallBoardFile /\ AllDecoded) =>
        /\ IsErr(result)
        /\ result.err.kind = "InvalidValue"
        /\ ErrorAt(<<"b", "l", "o", "c", "k", "_", "s", "i", "z", "e", " ", "=", " ", "1">>)

SmallBoardWitness ==
    /\ Returned
    /\ SmallBoardFile
    /\ AllDecoded
    /\ IsErr(result)
    /\ result.err.line = <<"b", "l", "o", "c", "k", "_", "s", "i", "z", "e", " ", "=", " ", "1">>
    /\ result.err.line_num = 1

\* C8: a returned record has fps, board_width, board_height and block_size
\* of at least 1, and a board at least 4 * block_size wide and high.
RecordDimensions ==
    ReturnedOk =>
        /\ U64Le(U64(1), result.val.fps)
        /\ U64Le(U64(1), result.val.board_width)
        /\ U64Le(U64(1), result.val.board_height)
        /\ U64Le(U64(1), result.val.block_size)
        /\ U64Times4Le(result.val.block_size, result.val.board_width)
        /\ U64Times4Le(result.val.block_size, result.val.board_height)

\* C9: every recognized setting of the file whose value text is valid for
\* its type, and whose field no cross-field rule overrides, gives the field
\* of the returned record its decoded value.
SettingsTakeEffect ==
    (ReturnedOk /\ written = None) =>
        \A i \in 1..Len(CONFIG_OPTIONS) :
            (/\ Sets(CONFIG_OPTIONS[i])
             /\ DecodeAs(FieldType[i], settings[CONFIG_OPTIONS[i]][1]).ok
             /\ ~Overridden(FieldName[i], result.val)) =>
                result.val[FieldName[i]] =
                    DecodeAs(FieldType[i], settings[CONFIG_OPTIONS[i]][1]).val

\* C10: a recognized setting of the file whose value text its type's parser
\* does not accept makes parse return an error.
BadValueIsAnError ==
    (/\ Returned
     /\ \E i \in 1..Len(CONFIG_OPTIONS) :
           /\ Sets(CONFIG_OPTIONS[i])
           /\ ~DecodeAs(FieldType[i], settings[CONFIG_OPTIONS[i]][1]).ok) =>
        IsErr(result)

---------------------------------------------------------------------------
(* The lines of a file, as a reader of the file sees them *)

RECURSIVE FirstEqFrom(_, _)
FirstEqFrom(line, i) ==
    IF i > Len(line) THEN 0
    ELSE IF line[i] = "=" THEN i
    ELSE FirstEqFrom(line, i + 1)

\* the position of the first '=' of a line, 0 when it has none
FirstEq(line) == FirstEqFrom(line, 1)

\* an empty line or a comment line
Skipped(line) == line = <<>> \/ line[1] = "#"

\* the trimmed text before the first '=' (the whole line when it has none)
KeyText(line) ==
    IF FirstEq(line) = 0 THEN Trim(line) ELSE Trim(SubSeq(line, 1, FirstEq(line) - 1))

\* the trimmed text after the first '=', to the end of the line
RestText(line) ==
    IF FirstEq(line) = 0 THEN <<>> ELSE Trim(SubSeq(line, FirstEq(line) + 1, Len(line)))

\* a line with a key, an '=' and a value
WellFormed(line) ==
    ~Skipped(line) /\ FirstEq(line) > 0 /\ KeyText(line) # <<>> /\ RestText(line) # <<>>

Recognized(line) == KeyText(line) \in Range(CONFIG_OPTIONS)

\* the file handed to parse is one of the files read, not a file parse's
\* record was written to
ReadFile == text # Missing /\ written = None /\ pc # "main"

\* the tokenizer got as far as line j (1-based) of the file
Reached(j) == num >= j - 1

---------------------------------------------------------------------------
(* Properties of the tokenizer *)

\* C11: when a recognized key is set by two lines of the file and the
\* tokenizer gets as far as the second, parse fails with DuplicateSetting
\* whose line number is the 0-based index of the second line and whose text
\* is that line; the table holds one entry for each setting line tokenized.
DuplicateReported ==
    ReadFile =>
        Let(Lines(text), LAMBDA ls :
            /\ Cardinality(DOMAIN settings) =
                  Cardinality({i \in 1..num : ~Skipped(ls[i])})
            /\ Returned =>
                  \A j \in 1..Len(ls) :
                      (/\ Reached(j)
                       /\ WellFormed(ls[j])
                       /\ Recognized(ls[j])
                       /\ \E i \in 1..(j - 1) :
                             ~Skipped(ls[i]) /\ KeyText(ls[i]) = KeyText(ls[j])) =>
                          result = Err(ParseError("DuplicateSetting", j - 1, ls[j], None)))

DuplicateReportedWitness ==
    /\ ReadFile
    /\ Returned
    /\ text = <<"f", "p", "s", " ", "=", " ", "3", "0">> \o <<"\n">> \o <<"#", " ", "f", "p", "s", " ", "=", " ", "1">> \o <<"\n">> \o <<"f", "p", "s", " ", "=", " ", "0">> \o <<"\n">>
    /\ result = Err(ParseError("DuplicateSetting", 2, <<"f", "p", "s", " ", "=", " ", "0">>, None))
    /\ DOMAIN settings = {<<"f", "p", "s">>}
    /\ settings[<<"f", "p", "s">>] = <<<<"3", "0">>, 0, <<"f", "p", "s", " ", "=", " ", "3", "0">>>>

\* C12: when the tokenizer gets as far as a line with a key and a value
\* whose key is not in CONFIG_OPTIONS, parse fails with UnknownSetting for
\* that line, with the list of valid settings as the correction; every key
\* of the table is in CONFIG_OPTIONS.
UnknownReported ==
    /\ DOMAIN settings \subseteq Range(CONFIG_OPTIONS)
    /\ (ReadFile /\ Returned) =>
          Let(Lines(text), LAMBDA ls :
              \A j \in 1..Len(ls) :
                  (Reached(j) /\ WellFormed(ls[j]) /\ ~Recognized(ls[j])) =>
                      result = Err(ParseError("UnknownSetting", j - 1, ls[j],
                                              Some(VALID_SETTINGS))))

UnknownReportedWitness ==
    /\ ReadFile
    /\ Returned
    /\ text = <<"f", "p", "s", " ", "=", " ", "3", "0">> \o <<"\n">> \o <<"s", "p", "e", "e", "d", " ", "=", " ", "3">> \o <<"\n">>
    /\ result.err.kind = "UnknownSetting"
    /\ result.err.line_num = 1
    /\ result.err.line = <<"s", "p", "e", "e", "d", " ", "=", " ", "3">>
    /\ result.err.correction = Some(VALID_SETTINGS)
    /\ DOMAIN settings = {<<"f", "p", "s">>}

\* a line that is not skipped and lacks the '=', the key or the value
Malformed(line) ==
    /\ ~Skipped(line)
    /\ (FirstEq(line) = 0 \/ KeyText(line) = <<>> \/ RestText(line) = <<>>)

\* C13: when the tokenizer gets as far as a non-empty line that does not
\* start with '#' and has no '=', or nothing but blanks before it, or nothing
\* but blanks after it, parse fails with InvalidLineFormat for that line;
\* no error is ever attributed to an empty line or a comment line, and no
\* entry of the table comes from one.
MalformedReported ==
    ReadFile =>
        Let(Lines(text), LAMBDA ls :
            /\ \A k \in DOMAIN settings :
                  /\ settings[k][2] + 1 \in 1..Len(ls)
                  /\ ~Skipped(ls[settings[k][2] + 1])
            /\ Returned =>
                  \A j \in 1..Len(ls) :
                      /\ (Reached(j) /\ Malformed(ls[j])) =>
                            /\ IsErr(result)
                            /\ result.err.kind = "InvalidLineFormat"
                            /\ result.err.line_num = j - 1
                            /\ result.err.line = ls[j]
                      /\ Skipped(ls[j]) =>
                            ~(IsErr(result) /\ result.err.line_num = j - 1))

MalformedReportedWitness ==
    /\ ReadFile
    /\ Returned
    /\ text = <<"#", " ", "f", "p", "s", " ", "=", " ", "1">> \o <<"\n", "\n">> \o <<"f", "o", "o">> \o <<"\n">>
    /\ result = Err(ParseError("InvalidLineFormat", 2, <<"f", "o", "o">>, None))
    /\ settings = EmptySettings

\* C14: every entry of the table comes from a line of the file whose trimmed
\* text before the first '=' is the entry's key and whose whole trimmed text
\* after that first '=' is the entry's value text.
SplitAtFirstEq ==
    ReadFile =>
        Let(Lines(text), LAMBDA ls :
            \A k \in DOMAIN settings :
                /\ settings[k][2] + 1 \in 1..Len(ls)
                /\ k = KeyText(ls[settings[k][2] + 1])
                /\ settings[k][1] = RestText(ls[settings[k][2] + 1]))

\* line j of the lines ls cannot be tokenized: it is malformed, sets an
\* unknown key, or sets a key that an earlier line set
BadLine(ls, j) ==
    /\ ~Skipped(ls[j])
    /\ \/ Malformed(ls[j])
       \/ ~Recognized(ls[j])
       \/ \E i \in 1..(j - 1) : ~Skipped(ls[i]) /\ KeyText(ls[i]) = KeyText(ls[j])

\* the positions of the lines of ls that cannot be tokenized
BadLines(ls) == {j \in 1..Len(ls) : BadLine(ls, j)}

\* the positions of the lookups that failed
Failed(all) == {p \in 1..Len(all) : ~all[p].ok}

TokenizerErrors == {"InvalidLineFormat", "UnknownSetting", "DuplicateSetting"}
BoardMessage == Some("Board dimensions must be greater than or equal to block size.")

\* the error of a failed parse, for the bad lines and the failed lookups
FirstErrorOf(bad, failed, ls, all) ==
    /\ "val" \notin DOMAIN result
    /\ \A j \in bad :
          (\A i \in bad : j <= i) =>
              /\ IsErr(result)
              /\ result.err.kind \in TokenizerErrors
              /\ result.err.line_num = j - 1
              /\ result.err.line = ls[j]
              /\ fields = NoFields
    /\ bad = {} =>
          \A p \in failed :
              (\A q \in failed : p <= q) =>
                  /\ result = all[p]
                  /\ fields = NoFields
    /\ (IsErr(result) /\ result.err.correction = BoardMessage) =>
          /\ bad = {}
          /\ failed = {}
          /\ fields # NoFields

\* C15: a parse that fails returns no record and returns the first error:
\* that of the earliest line that cannot be tokenized, whatever the values of
\* the lines before it; without such a line, the error of the first lookup
\* that fails, in the order of the lookups; the board-size error only when
\* every line was tokenized and every lookup succeeded.
FailFast ==
    (ReadFile /\ Returned /\ ~result.ok) =>
        Let(Lines(text), LAMBDA ls :
            Let(Lookups(settings), LAMBDA all :
                FirstErrorOf(BadLines(ls), Failed(all), ls, all)))

FailFastWitness ==
    /\ ReadFile
    /\ Returned
    /\ text = <<"b", "o", "a", "r", "d", "_", "w", "i", "d", "t", "h", " ", "=", " ", "t", "e", "n">> \o <<"\n">> \o <<"f", "p", "s", " ", "=", " ", "0">> \o <<"\n">> \o <<"f", "o", "o">> \o <<"\n">>
    /\ result = Err(ParseError("InvalidLineFormat", 2, <<"f", "o", "o">>, None))

---------------------------------------------------------------------------
(* Properties of the serializer and of the value parsers *)

\* the recognized keys in the order of the fields of struct GameConfig
FieldOrder == <<
    <<"f", "p", "s">>, <<"b", "o", "a", "r", "d", "_", "w", "i", "d", "t", "h">>, <<"b", "o", "a", "r", "d", "_", "h", "e", "i", "g", "h", "t">>, <<"m", "o", "d", "e">>, <<"m", "o", "v", "e", "_", "l", "e", "f", "t">>,
    <<"m", "o", "v", "e", "_", "r", "i", "g", "h", "t">>, <<"r", "o", "t", "a", "t", "e", "_", "c", "l", "o", "c", "k", "w", "i", "s", "e">>, <<"r", "o", "t", "a", "t", "e", "_", "a", "n", "t", "i", "c", "l", "o", "c", "k", "w", "i", "s", "e">>,
    <<"s", "o", "f", "t", "_", "d", "r", "o", "p">>, <<"h", "a", "r", "d", "_", "d", "r", "o", "p">>, <<"h", "o", "l", "d">>, <<"g", "h", "o", "s", "t", "_", "t", "e", "t", "r", "o", "m", "i", "n", "o", "_", "c", "h", "a", "r", "a", "c", "t", "e", "r">>,
    <<"g", "h", "o", "s", "t", "_", "t", "e", "t", "r", "o", "m", "i", "n", "o", "_", "c", "o", "l", "o", "r">>, <<"c", "a", "s", "c", "a", "d", "e">>, <<"c", "o", "n", "s", "t", "_", "l", "e", "v", "e", "l">>, <<"m", "o", "n", "o", "c", "h", "r", "o", "m", "e">>,
    <<"b", "o", "r", "d", "e", "r", "_", "c", "o", "l", "o", "r">>, <<"t", "o", "p", "_", "b", "o", "r", "d", "e", "r", "_", "c", "h", "a", "r", "a", "c", "t", "e", "r">>, <<"t", "l", "_", "c", "o", "r", "n", "e", "r", "_", "c", "h", "a", "r", "a", "c", "t", "e", "r">>,
    <<"l", "e", "f", "t", "_", "b", "o", "r", "d", "e", "r", "_", "c", "h", "a", "r", "a", "c", "t", "e", "r">>, <<"b", "l", "_", "c", "o", "r", "n", "e", "r", "_", "c", "h", "a", "r", "a", "c", "t", "e", "r">>,
    <<"b", "o", "t", "t", "o", "m", "_", "b", "o", "r", "d", "e", "r", "_", "c", "h", "a", "r", "a", "c", "t", "e", "r">>, <<"b", "r", "_", "c", "o", "r", "n", "e", "r", "_", "c", "h", "a", "r", "a", "c", "t", "e", "r">>,
    <<"r", "i", "g", "h", "t", "_", "b", "o", "r", "d", "e", "r", "_", "c", "h", "a", "r", "a", "c", "t", "e", "r">>, <<"t", "r", "_", "c", "o", "r", "n", "e", "r", "_", "c", "h", "a", "r", "a", "c", "t", "e", "r">>, <<"b", "a", "c", "k", "g", "r", "o", "u", "n", "d", "_", "c", "o", "l", "o", "r">>,
    <<"b", "l", "o", "c", "k", "_", "c", "h", "a", "r", "a", "c", "t", "e", "r">>, <<"b", "l", "o", "c", "k", "_", "s", "i", "z", "e">>, <<"i", "_", "c", "o", "l", "o", "r">>, <<"j", "_", "c", "o", "l", "o", "r">>, <<"l", "_", "c", "o", "l", "o", "r">>,
    <<"s", "_", "c", "o", "l", "o", "r">>, <<"z", "_", "c", "o", "l", "o", "r">>, <<"t", "_", "c", "o", "l", "o", "r">>, <<"o", "_", "c", "o", "l", "o", "r">> >>

\* parse is reading a text that Display wrote; num lines of it are read
ReadingWritten == IsSome(written) /\ pc = "tokenize"

\* the text that Display wrote has one `key = value` line for each key of
\* order, in that order
WrittenInOrder(order) ==
    ReadingWritten =>
        IF unread = <<>>
        THEN num = Len(order)
        ELSE /\ num < Len(order)
             /\ WellFormed(NextLine(unread).line)
             /\ KeyText(NextLine(unread).line) = order[num + 1]

\* C16 as stated: the text of a record has one line for each of the 35
\* recognized keys, in the order of CONFIG_OPTIONS.
SerializedInOptionsOrder == WrittenInOrder(CONFIG_OPTIONS)

\* C16 amended: the text of a record has exactly one `key = value` line for
\* each of the 35 recognized keys, in the order of the fields of GameConfig.
SerializedInFieldOrder ==
    /\ Len(FieldOrder) = Len(CONFIG_OPTIONS)
    /\ Range(FieldOrder) = Range(CONFIG_OPTIONS)
    /\ Cardinality(Range(FieldOrder)) = Len(FieldOrder)
    /\ WrittenInOrder(FieldOrder)

SerializedInFieldOrderWitness ==
    /\ ReadingWritten
    /\ Unwrap(written) # GameConfigDefault
    /\ num = 3
    /\ NextLine(unread).line = <<"m", "o", "d", "e", " ", "=", " ", "c", "l", "a", "s", "s", "i", "c">>
    /\ CONFIG_OPTIONS[num + 1] = <<"m", "o", "n", "o", "c", "h", "r", "o", "m", "e">>

\* the key under which the lookups ask the table for the field written under
\* CONFIG_OPTIONS[i]: the name of the field
LookupKey ==
    [CONFIG_OPTIONS EXCEPT ![21] = <<"l", "e", "f", "t">>, ![22] = <<"r", "i", "g", "h", "t">>,
                           ![23] = <<"r", "o", "t", "_", "c", "w">>, ![24] = <<"r", "o", "t", "_", "a", "c", "w">>]

Optional(i) == FieldType[i] \in {"opt_num", "opt_char", "opt_color", "opt_keyevent"}

\* the table gives the lookup of field i the text none, in some letter case
LooksUpNone(i) ==
    /\ Sets(LookupKey[i])
    /\ ToAsciiLowercase(settings[LookupKey[i]][1]) = <<"n", "o", "n", "e">>

\* every line was tokenized and the lookups were made
LookupsMade == ReadFile /\ pc \in {"cross", "done"} /\ unread = <<>>

KeyNames ==
    [name \in {<<"s", "p", "a", "c", "e">>, <<"l", "e", "f", "t">>, <<"r", "i", "g", "h", "t">>, <<"u", "p">>, <<"d", "o", "w", "n">>, <<"l", "s", "h", "i", "f", "t">>,
               <<"r", "s", "h", "i", "f", "t">>, <<"l", "c", "t", "r", "l">>, <<"r", "c", "t", "r", "l">>, <<"e", "s", "c">>} |->
        CASE name = <<"s", "p", "a", "c", "e">> -> <<"Char", " ">>
          [] name = <<"l", "e", "f", "t">> -> <<"Left">>
          [] name = <<"r", "i", "g", "h", "t">> -> <<"Right">>
          [] name = <<"u", "p">> -> <<"Up">>
          [] name = <<"d", "o", "w", "n">> -> <<"Down">>
          [] name = <<"l", "s", "h", "i", "f", "t">> -> <<"ShiftLeft">>
          [] name = <<"r", "s", "h", "i", "f", "t">> -> <<"ShiftRight">>
          [] name = <<"l", "c", "t", "r", "l">> -> <<"CtrlLeft">>
          [] name = <<"r", "c", "t", "r", "l">> -> <<"CtrlRight">>
          [] name = <<"e", "s", "c">> -> <<"Esc">>]

\* the value of a decoded key-binding field: the binding itself, or Some of it
\* for an optional field
Binding(i, keyevent) == IF Optional(i) THEN Some(keyevent) ELSE keyevent

\* the one setting of the file sets the key binding looked up for field i
\* (soft_drop, hard_drop or hold), and not to none
OnlyKeyBinding(i) ==
    /\ FieldType[i] \in {"keyevent", "opt_keyevent"}
    /\ LookupKey[i] = CONFIG_OPTIONS[i]
    /\ DOMAIN settings = {LookupKey[i]}
    /\ ~(Optional(i) /\ LooksUpNone(i))

\* C18: a key binding whose value text is one character, of any length in
\* bytes, is that character; one of the ten names is the named key; every
\* other text is rejected with InvalidValue.
KeyBindingGrammar ==
    LookupsMade =>
        \A i \in 1..Len(CONFIG_OPTIONS) :
            OnlyKeyBinding(i) =>
                IF Len(settings[LookupKey[i]][1]) = 1
                THEN /\ AllDecoded
                     /\ fields[FieldName[i]] =
                           Binding(i, <<"Char", settings[LookupKey[i]][1][1]>>)
                ELSE IF settings[LookupKey[i]][1] \in DOMAIN KeyNames
                THEN /\ AllDecoded
                     /\ fields[FieldName[i]] =
                           Binding(i, KeyNames[settings[LookupKey[i]][1]])
                ELSE /\ IsErr(result)
                     /\ result.err.kind = "InvalidValue"
                     /\ result.err.line_num = settings[LookupKey[i]][2]

---------------------------------------------------------------------------
(* Properties of the cross-field rules *)

\* the lookups succeeded and parse returned without a panic
CrossChecked == ReadFile /\ Returned /\ AllDecoded /\ ~IsPanic(result)

\* the decoded locals with the seven piece colors set to color
WithPieceColors(f, color) ==
    [f EXCEPT !.i_color = color, !.j_color = color, !.l_color = color,
              !.s_color = color, !.z_color = color, !.t_color = color,
              !.o_color = color]

\* the decoded locals without hard drop, hold and ghost tetromino
WithoutModernFeatures(f) ==
    [f EXCEPT !.hard_drop = None, !.hold = None,
              !.ghost_tetromino_character = None,
              !.ghost_tetromino_color = None]

LessThan4Times(x, block_size) ==
    \/ U64MulAdd(block_size, 4, 0).carry # 0
    \/ U64Lt(x, U64MulAdd(block_size, 4, 0).val)

\* C20: after the lookups, parse fails with InvalidValue exactly when
\* board_width < 4 * block_size or board_height < 4 * block_size; a board of
\* 4 * block_size by 4 * block_size or more is accepted.
BoardCheckExact ==
    CrossChecked =>
        ((IsErr(result) /\ result.err.kind = "InvalidValue")
            <=> (\/ LessThan4Times(fields.board_width, fields.block_size)
                 \/ LessThan4Times(fields.board_height, fields.block_size)))


---------------------------------------------------------------------------
(* Properties of the board-size check and of the decoder's domain *)

\* the keys the board-size error is attributed to, in the order of preference
BoardKeys == << <<"b", "l", "o", "c", "k", "_", "s", "i", "z", "e">>, <<"b", "o", "a", "r", "d", "_", "h", "e", "i", "g", "h", "t">>, <<"b", "o", "a", "r", "d", "_", "w", "i", "d", "t", "h">> >>

\* the positions of the lines of ls that set key
LinesSetting(ls, key) ==
    {j \in 1..Len(ls) : ~Skipped(ls[j]) /\ KeyText(ls[j]) = key}

\* every lookup succeeded and the condition of the board-size check held:
\* parse ended in that branch, by its error or by its unreachable!()
BoardCheckFired ==
    /\ text # Missing
    /\ Returned
    /\ AllDecoded
    /\ ~result.ok
    /\ ~(IsPanic(result) /\ result.panic = "attempt to multiply with overflow")

\* C21: whenever the board-size check fires, the file sets at least one of
\* block_size, board_height and board_width, the unreachable!() branch is not
\* entered, and the line number and the text of the error are those of the
\* line that sets the first of these keys, in that order, that the file sets.
BoardErrorAttribution ==
    BoardCheckFired =>
        Let(Lines(text), LAMBDA ls :
            /\ \E i \in 1..3 : LinesSetting(ls, BoardKeys[i]) # {}
            /\ IsErr(result)
            /\ result.err.kind = "InvalidValue"
            /\ result.err.correction = BoardMessage
            /\ \A i \in 1..3 :
                  (/\ LinesSetting(ls, BoardKeys[i]) # {}
                   /\ \A h \in 1..(i - 1) : LinesSetting(ls, BoardKeys[h]) = {}) =>
                      /\ LinesSetting(ls, BoardKeys[i]) = {result.err.line_num + 1}
                      /\ result.err.line = ls[result.err.line_num + 1])

BoardErrorAttributionWitness ==
    /\ BoardCheckFired
    /\ text = <<"b", "o", "a", "r", "d", "_", "w", "i", "d", "t", "h", " ", "=", " ", "3">> \o <<"\n">> \o <<"b", "o", "a", "r", "d", "_", "h", "e", "i", "g", "h", "t", " ", "=", " ", "4">> \o <<"\n">>
    /\ result = Err(ParseError("InvalidValue", 1, <<"b", "o", "a", "r", "d", "_", "h", "e", "i", "g", "h", "t", " ", "=", " ", "4">>, BoardMessage))

\* the number of false entries of in_use
Unused(usage_map) == Cardinality({i \in 1..7 : ~usage_map[i]})

\* find_nth_unused(usage_map, n) is called inside its domain: n is smaller
\* than the number of unused entries, and the loop ends at an index in 0..6
\* without reading usage_map out of bounds
CallInDomain(usage_map, n) ==
    /\ n < Unused(usage_map)
    /\ find_nth_unused(usage_map, n).ok
    /\ find_nth_unused(usage_map, n).val \in 0..6
    /\ ~usage_map[find_nth_unused(usage_map, n).val + 1]

\* C22: for every index below 5040 the call stays inside its domain at every
\* step: before the match of stage k the remainder is below (7-k)!, so an arm
\* matches and no unreachable_unchecked() arm is entered, and after the last
\* subtraction it is below 2; every call of find_nth_unused has an argument
\* smaller than the number of unused entries and ends at an index in 0..6
\* without a read out of bounds; the scan for p6 ends at an index in 0..6;
\* every value passed to Tetromino::from is in 0..6.
DecodeStaysInDomain ==
    index < SEQUENCE_COUNT =>
        /\ ~fell_through
        /\ dpc \in Range(Position) \cup {"done"}
        /\ Len(picks) <= 7
        /\ \A i \in 1..Len(picks) : picks[i] \in 0..6
        /\ Unused(in_use) = 7 - Len(picks)
        /\ \A k \in 0..4 :
              dpc = Position[k + 1] =>
                  /\ Len(picks) = k
                  /\ sequence_number < Factorial(7 - k)
                  /\ ~FallsThrough(StageArms(k), sequence_number)
                  /\ \A arm \in MatchOutcomes(StageArms(k), sequence_number) :
                        /\ sequence_number - arm[4] < Factorial(6 - k)
                        /\ k >= 1 => CallInDomain(in_use, arm[3])
                        /\ k = 0 => arm[3] \in 0..6
        /\ dpc = "p5" =>
              /\ Len(picks) = 5
              /\ sequence_number < 2
              /\ CallInDomain(in_use, sequence_number)
        /\ dpc = "p6" =>
              /\ Len(picks) = 6
              /\ FirstUnusedLoop(in_use, 0).ok
              /\ FirstUnusedLoop(in_use, 0).val \in 0..6
        /\ dpc = "done" =>
              /\ Len(picks) = 7
              /\ sequence = [i \in 1..7 |-> Tetromino[picks[i] + 1]]

DecodeStaysInDomainWitness ==
    /\ index = 719
    /\ dpc = "done"
    /\ ~fell_through
    /\ picks = <<0, 6, 5, 4, 3, 2, 1>>
    /\ sequence = <<"I", "O", "T", "Z", "S", "L", "J">>

\* the lookups succeeded, so the board-size check is evaluated
BoardCheckEvaluated == text # Missing /\ AllDecoded /\ pc \in {"cross", "done"}

\* C23: for every block size the integer parser accepts, block_size * 4 does
\* not exceed the largest usize, so the board-size check is not evaluated on
\* a wrapped product and does not stop in an overflow panic, and no file
\* whose board is less than 4 * block_size wide or high, over the integers,
\* is accepted.
ProductNeverWraps ==
    BoardCheckEvaluated =>
        /\ BlockSizeTimes4(fields.block_size).carry = 0
        /\ Returned => ~IsPanic(result)
        /\ ReturnedOk =>
              /\ ~LessThan4Times(fields.board_width, fields.block_size)
              /\ ~LessThan4Times(fields.board_height, fields.block_size)
====
